---- MODULE Spec2Model ----
(***************************************************************************)
(* Model of the modpack synchroniser: the history store                    *)
(* (app/core/persistence.py), the tree snapshotter and plan builder        *)
(* (app/core/scanner.py), the plan executor (app/core/syncer.py) and the   *)
(* file helpers they use (app/utils/filesystem.py).                        *)
(*                                                                         *)
(* Paths follow the platform of the defaults in app/core/config.py          *)
(* (F:/Game/Minecraft/...): str(rel_path) separates with a backslash and   *)
(* both slashes separate path components.  A relative path is the          *)
(* sequence of the characters of str(rel_path); a file is one of three     *)
(* versions ("x", "y": readable, different bytes; "u": stat works, reading *)
(* raises OSError) or Absent.  An entry whose stat() fails is invisible to *)
(* every operation modelled here (the walk skips it, exists() is false),   *)
(* so it is modelled as Absent.  The world outside the program (the user,  *)
(* other processes) edits the trees between two operations of the engine,  *)
(* not in the middle of one.                                               *)
(***************************************************************************)
EXTENDS Integers, Sequences, FiniteSets, TLC

\* ------------------------------------------------------------------ bounds
\* number of edits the outside world makes to the trees / exclusions
MaxEdits == 2
\* number of execute_plan runs (each run reads the clock once)
MaxRuns == 2
\* how many calls a SyncHistoryStore gets when it is studied on its own
MaxStoreOps == 4
\* how many store calls each thread makes when two threads share the store
MaxThreadCalls == 1
\* how many confirmations a plan shown in the window can need
MaxAsks == 2

\* ------------------------------------------------------------ value universe
None == <<>>
Some(x) == <<x>>

\* Relative paths as the characters of str(rel_path).
PathA == <<"a">>
PathDA == <<"d", "\\", "a">>
Paths == {PathA, PathDA}

\* Names the history store is asked about.  Modpacks are the names whose
\* instance directory exists (what discover_modpacks lists); "m2" is a name
\* without a directory, for which only exclusions are recorded.
Names == {"m1", "m2"}
Modpacks == {"m1"}

Absent == "-"
FileVals == {"x", "y", "u"}
Cells == FileVals \cup {Absent}

\* stat(): size and modification time of a file version.
StatSize(v) == CASE v = "x" -> 1 [] v = "y" -> 2 [] OTHER -> 3
StatMtime(v) == CASE v = "x" -> 10 [] v = "y" -> 20 [] OTHER -> 30

Digits == <<"0", "1", "2", "3", "4", "5", "6", "7", "8", "9">>

\* str(int)
RECURSIVE StrInt(_)
StrInt(n) == IF n < 10 THEN <<Digits[n + 1]>>
             ELSE StrInt(n \div 10) \o <<Digits[(n % 10) + 1]>>

\* str(float) of a whole number of seconds
StrFloat(n) == StrInt(n) \o <<".", "0">>

\* int(s) and float(s) for the strings str() gives: decimal digits, and
\* decimal digits followed by ".0"
DigitValue(c) == CHOOSE d \in 0..9 : Digits[d + 1] = c
RECURSIVE ParseInt(_)
ParseInt(s) == IF s = <<>> THEN 0
               ELSE 10 * ParseInt(SubSeq(s, 1, Len(s) - 1)) + DigitValue(s[Len(s)])
IsWholeFloat(s) == Len(s) >= 3 /\ s[Len(s) - 1] = "." /\ s[Len(s)] = "0"
ParseFloat(s) == ParseInt(SubSeq(s, 1, Len(s) - 2))

Range(s) == {s[i] : i \in DOMAIN s}

\* all orders in which a walk (or a dict) can enumerate the set S
Orders(S) == {s \in [1..Cardinality(S) -> S] : Range(s) = S}

\* the keys K enumerated in the order `order` of all paths
RECURSIVE KeysInOrder(_, _)
KeysInOrder(order, K) ==
    IF order = <<>> THEN <<>>
    ELSE IF Head(order) \in K THEN <<Head(order)>> \o KeysInOrder(Tail(order), K)
    ELSE KeysInOrder(Tail(order), K)

\* dict.pop(k, None) on a dict modelled as a function
Pop(f, k) == [x \in (DOMAIN f) \ {k} |-> f[x]]

\* ------------------------------------------------------------ filesystem.py
\* hash_file: SHA-256 of the bytes (injective on the versions), "" on OSError
hash_file(v) == CASE v = "x" -> "hx" [] v = "y" -> "hy" [] OTHER -> ""

\* normalize_relative: every backslash becomes a forward slash
normalize_relative(s) == [i \in DOMAIN s |-> IF s[i] = "\\" THEN "/" ELSE s[i]]

\* Path.parent of a relative path: None for a file directly under the root,
\* else the directory part (the characters before the last separator).
LastSlash(p) == LET S == {i \in DOMAIN p : p[i] \in {"/", "\\"}}
                IN IF S = {} THEN 0 ELSE CHOOSE i \in S : \A j \in S : j <= i
ParentDir(p) == IF LastSlash(p) = 0 THEN None ELSE Some(SubSeq(p, 1, LastSlash(p) - 1))
\* Path.name
BaseName(p) == SubSeq(p, LastSlash(p) + 1, Len(p))

Dirs == {ParentDir(p)[1] : p \in {q \in Paths : ParentDir(q) # None}}

\* absolute paths: a root directory joined with a relative path
SourceRoot(n) == <<"instances", n>>
GamePath == <<"game">>
Join(root, p) == <<root, p>>
SourcePath(n, p) == Join(SourceRoot(n), p)
TargetPath(p) == Join(GamePath, p)

VARIABLES
    src,      \* src[n][p]: the file at relative path p of modpack n's directory
    tgt,      \* tgt[p]: the file at relative path p under the game path
    tgtDirs,  \* the directories that exist under the game path
    tgtRoot,  \* the game path itself exists
    tgtLocked, \* the directories under the game path whose rmdir raises
              \* OSError although they are empty (no permission)
    backups,  \* backups[<<bucket, name>>]: the files under the backup root
    disk,     \* the history document: None (no file) or Some(dict by name)
    cache,    \* SyncHistoryStore._cache: dict by name of SyncHistory
    now,      \* the clock
    plan,     \* the SyncPlan last returned by build_sync_plan (None before)
    payload,  \* the snapshot payload returned with it
    planFor,  \* the modpack it was built for
    built,    \* what that build_sync_plan call read (the two trees and the
              \* history), the two snapshots it returned, and how many
              \* outside edits had happened by then
    pc,       \* where execute_plan is: idle, adds, updates, removals, ...
    run,      \* execute_plan's locals
    log,      \* the callbacks issued and file operations done by this run
    edits,    \* how many outside edits have happened
    heap,     \* the SyncHistory objects that threads share, by reference
    lock,     \* SyncHistoryStore._lock: None or the thread that holds it
    thr,      \* thr[t]: the call a thread is in, its position and its locals
    gui,      \* the MainWindow: its fields, its buttons and its event queue
    worker    \* the SyncWorker: its position, its mutex and its responses

fsVars == <<src, tgt, tgtDirs, tgtRoot, tgtLocked, backups>>
storeVars == <<disk, cache>>
planVars == <<plan, payload, planFor, built>>
execVars == <<pc, run, log>>
threadVars == <<heap, lock, thr>>
guiVars == <<gui, worker>>
vars == <<src, tgt, tgtDirs, tgtRoot, tgtLocked, backups, disk, cache, now, plan, payload,
          planFor, built, pc, run, log, edits, heap, lock, thr, gui, worker>>

\* ------------------------------------------------------------ persistence.py
EmptyDict == <<>>

\* SyncHistory(modpack_name=name): the dataclass defaults
FreshHistory == [files |-> EmptyDict, exclusions |-> <<>>, last_synced |-> None]

\* The history file: None when there is no file, Some(text) for a file that
\* holds a JSON object of histories by name, Bad(kind) for any other file:
\* one that cannot be opened or read ("unreadable"), one whose bytes are no
\* UTF-8 ("not-utf8"), one that is no JSON ("invalid"), one that holds a
\* JSON array ("list") or a JSON number, string or null ("scalar")
Bad(kind) == <<"bad", kind>>
BadKinds == {"unreadable", "not-utf8", "invalid", "list", "scalar"}

\* json.dumps / json.loads of the document: files and exclusions are strings
\* throughout, last_synced is written as null or as the repr of the float
JsonNull == <<"n", "u", "l", "l">>
json_dumps(data) ==
    [n \in DOMAIN data |->
        [data[n] EXCEPT !.last_synced = IF @ = None THEN JsonNull ELSE StrFloat(@[1])]]
json_loads(text) ==
    [n \in DOMAIN text |->
        [text[n] EXCEPT !.last_synced = IF @ = JsonNull THEN None ELSE Some(ParseFloat(@))]]

\* _read_raw raises: read_text raises UnicodeDecodeError, which is neither a
\* JSONDecodeError nor an OSError
read_raw_raises(d) == d = Bad("not-utf8")

\* what _read_raw returns is a dict: {} when the file does not exist, cannot
\* be read or is no JSON, else the parsed document when that is an object
RawIsDict(d) == d \notin {Bad("list"), Bad("scalar")}
read_raw(d) == IF Len(d) = 1 THEN json_loads(d[1]) ELSE EmptyDict

\* _write_raw
write_raw(data) == Some(json_dumps(data))

\* load_all raises: the cache is empty and _read_raw raises, or raw.items()
\* does, raw being no dict
load_all_raises(d, c) == DOMAIN c = {} /\ (read_raw_raises(d) \/ ~RawIsDict(d))

\* save_history raises: _read_raw raises, or raw[name] = ... does
save_history_raises(d) == read_raw_raises(d) \/ ~RawIsDict(d)

\* load_all: the cache when it is non-empty, else the cache filled from disk
load_all(d, c) ==
    IF DOMAIN c # {} THEN c
    ELSE [n \in DOMAIN read_raw(d) |-> read_raw(d)[n]]

\* get_history: the cache after the call (a fresh history is cached for an
\* unknown name); the history returned is CacheAfterGet(d, c, n)[n]
CacheAfterGet(d, c, n) ==
    IF n \in DOMAIN load_all(d, c) THEN load_all(d, c)
    ELSE (n :> FreshHistory) @@ load_all(d, c)

get_history(d, c, n) == CacheAfterGet(d, c, n)[n]

\* variant: last_synced is left out of the entry that is written
SaveWithoutTimestamp(d, c, n, h) ==
    [disk |-> write_raw((n :> [h EXCEPT !.last_synced = None]) @@ read_raw(d)),
     cache |-> (n :> h) @@ c]

\* save_history: [disk, cache] after the call
save_history(d, c, n, h) ==
    [disk |-> write_raw((n :> h) @@ read_raw(d)), cache |-> (n :> h) @@ c]

\* variant: the snapshot is merged into the files already recorded
UpdateMergesSnapshot(d, c, n, snapshot, t) ==
    LET c1 == CacheAfterGet(d, c, n)
        h == [c1[n] EXCEPT !.files = snapshot @@ @, !.last_synced = Some(t)]
    IN save_history(d, c1, n, h)

\* variant: the snapshot is stored and last_synced is left as it was
UpdateKeepsTimestamp(d, c, n, snapshot, t) ==
    LET c1 == CacheAfterGet(d, c, n)
        h == [c1[n] EXCEPT !.files = snapshot]
    IN save_history(d, c1, n, h)

\* update_file_snapshot
update_file_snapshot(d, c, n, snapshot, t) ==
    LET c1 == CacheAfterGet(d, c, n)
        h == [c1[n] EXCEPT !.files = snapshot, !.last_synced = Some(t)]
    IN save_history(d, c1, n, h)

InSeq(x, s) == \E i \in DOMAIN s : s[i] = x

\* list.remove(x): drops the first occurrence
RemoveFirst(s, x) ==
    LET i == CHOOSE k \in DOMAIN s : s[k] = x /\ \A j \in 1..(k - 1) : s[j] # x
    IN SubSeq(s, 1, i - 1) \o SubSeq(s, i + 1, Len(s))

\* variant: the path is appended without looking for it in the list
AddExclusionUnchecked(d, c, n, rel) ==
    LET c1 == CacheAfterGet(d, c, n)
        h == c1[n]
        s == save_history(d, c1, n, [h EXCEPT !.exclusions = Append(@, rel)])
    IN [disk |-> s.disk, cache |-> s.cache, saved |-> TRUE]

\* add_exclusion / remove_exclusion of the store: [disk, cache] after the
\* call, and whether save_history was called
add_exclusion(d, c, n, rel) ==
    LET c1 == CacheAfterGet(d, c, n)
        h == c1[n]
        s == save_history(d, c1, n, [h EXCEPT !.exclusions = Append(@, rel)])
    IN IF ~InSeq(rel, h.exclusions)
       THEN [disk |-> s.disk, cache |-> s.cache, saved |-> TRUE]
       ELSE [disk |-> d, cache |-> c1, saved |-> FALSE]

remove_exclusion(d, c, n, rel) ==
    LET c1 == CacheAfterGet(d, c, n)
        h == c1[n]
        s == save_history(d, c1, n, [h EXCEPT !.exclusions = RemoveFirst(@, rel)])
    IN IF InSeq(rel, h.exclusions)
       THEN [disk |-> s.disk, cache |-> s.cache, saved |-> TRUE]
       ELSE [disk |-> d, cache |-> c1, saved |-> FALSE]

\* an exclusion call raises: its get_history does, or its save_history does
exclusion_raises(d, c, saved) ==
    load_all_raises(d, c) \/ (saved /\ save_history_raises(d))

\* ---------------------------------------------------------------- scanner.py
\* variant: a walk that keeps excluded files
GatherIgnoresExclusions(tree, exists, exclusions, root) ==
    LET keys == IF ~exists THEN {} ELSE {p \in Paths : tree[p] # Absent}
    IN [p \in keys |->
          [relative_path |-> p, absolute_path |-> Join(root, p),
           size |-> StatSize(tree[p]), mtime |-> StatMtime(tree[p]),
           hash_digest |-> hash_file(tree[p])]]
\* _gather_snapshot: the tree as a function from the relative paths of its
\* files to their SnapshotEntry; `root` is base_path
gather_snapshot(tree, exists, exclusions, root) ==
    LET normalized_exclusions == {normalize_relative(e) : e \in Range(exclusions)}
        keys == IF ~exists THEN {}
                ELSE {p \in Paths : /\ tree[p] # Absent
                                    /\ normalize_relative(p) \notin normalized_exclusions}
    IN [p \in keys |->
          [relative_path |-> p, absolute_path |-> Join(root, p),
           size |-> StatSize(tree[p]), mtime |-> StatMtime(tree[p]),
           hash_digest |-> hash_file(tree[p])]]

EmptyPlan == [adds |-> <<>>, updates |-> <<>>, removals |-> <<>>, skipped |-> <<>>]

\* a FileChange whose destination drops the directories of the relative path
SourceChangeFlatTarget(source_entry, p) ==
    [relative_path |-> p, action |-> "copy",
     source_path |-> Some(source_entry.absolute_path),
     target_path |-> Some(Join(GamePath, BaseName(p))),
     size_bytes |-> Some(source_entry.size),
     hash_digest |-> Some(source_entry.hash_digest),
     reason |-> None]

\* the FileChange built for a source file (lines 110-117)
SourceChange(source_entry, p) ==
    [relative_path |-> p, action |-> "copy",
     source_path |-> Some(source_entry.absolute_path),
     target_path |-> Some(TargetPath(p)),
     size_bytes |-> Some(source_entry.size),
     hash_digest |-> Some(source_entry.hash_digest),
     reason |-> None]

\* variant: an iteration that leaves the path in history_files
ClassifySourceNoPop(st, p, source_snapshot, target_snapshot) ==
    LET source_entry == source_snapshot[p]
        change == SourceChange(source_entry, p)
        pl == st.plan
    IN [plan |->
          IF p \notin DOMAIN target_snapshot
          THEN [pl EXCEPT !.adds = Append(@, change)]
          ELSE IF target_snapshot[p].hash_digest # source_entry.hash_digest
          THEN [pl EXCEPT !.updates = Append(@,
                   [change EXCEPT !.action = "update",
                                  !.reason = Some("Content differs")])]
          ELSE [pl EXCEPT !.skipped = Append(@, [change EXCEPT !.action = "skip"])],
        history_files |-> st.history_files]
\* variant: an iteration that never compares digests
ClassifySourceAlwaysCopies(st, p, source_snapshot, target_snapshot) ==
    LET source_entry == source_snapshot[p]
        change == SourceChange(source_entry, p)
        pl == st.plan
    IN [plan |->
          IF p \notin DOMAIN target_snapshot
          THEN [pl EXCEPT !.adds = Append(@, change)]
          ELSE [pl EXCEPT !.updates = Append(@,
                   [change EXCEPT !.action = "update",
                                  !.reason = Some("Content differs")])],
        history_files |-> Pop(st.history_files, p)]
\* one iteration of the loop over the source snapshot (lines 107-132);
\* variant: target_entry is left over from the path before when the target
\* lacks this one, so that the path is taken for an update
ClassifySourceStaleEntry(st, p, source_snapshot, target_snapshot) ==
    LET source_entry == source_snapshot[p]
        change == SourceChange(source_entry, p)
        pl == st.plan
        stale == pl.updates # <<>> \/ pl.skipped # <<>>
    IN [plan |->
          IF p \notin DOMAIN target_snapshot /\ ~stale
          THEN [pl EXCEPT !.adds = Append(@, change)]
          ELSE IF p \notin DOMAIN target_snapshot
                  \/ target_snapshot[p].hash_digest # source_entry.hash_digest
          THEN [pl EXCEPT !.updates = Append(@,
                   [change EXCEPT !.action = "update",
                                  !.reason = Some("Content differs")])]
          ELSE [pl EXCEPT !.skipped = Append(@, [change EXCEPT !.action = "skip"])],
        history_files |-> Pop(st.history_files, p)]

\* st = [plan, history_files]
ClassifySource(st, p, source_snapshot, target_snapshot) ==
    LET source_entry == source_snapshot[p]
        change == SourceChange(source_entry, p)
        pl == st.plan
    IN [plan |->
          IF p \notin DOMAIN target_snapshot
          THEN [pl EXCEPT !.adds = Append(@, change)]
          ELSE IF target_snapshot[p].hash_digest # source_entry.hash_digest
          THEN [pl EXCEPT !.updates = Append(@,
                   [change EXCEPT !.action = "update",
                                  !.reason = Some("Content differs")])]
          ELSE [pl EXCEPT !.skipped = Append(@, [change EXCEPT !.action = "skip"])],
        history_files |-> Pop(st.history_files, p)]

RECURSIVE SourceLoop(_, _, _, _, _)
SourceLoop(st, order, i, source_snapshot, target_snapshot) ==
    IF i > Len(order) THEN st
    ELSE SourceLoop(ClassifySource(st, order[i], source_snapshot, target_snapshot),
                    order, i + 1, source_snapshot, target_snapshot)

\* the FileChange of a drift update (lines 141-148)
DriftChange(p) ==
    [relative_path |-> p, action |-> "update", source_path |-> None,
     target_path |-> Some(TargetPath(p)), size_bytes |-> None,
     hash_digest |-> None, reason |-> Some("Target file changed since last sync")]

\* the FileChange of a removal (lines 152-159)
RemovalChange(p) ==
    [relative_path |-> p, action |-> "delete", source_path |-> None,
     target_path |-> Some(TargetPath(p)), size_bytes |-> None,
     hash_digest |-> None, reason |-> Some("Removed from modpack")]

\* variant: an iteration that goes on to the removal after a drift update
ClassifyHistoryNoContinue(pl, p, info, target_snapshot, tree) ==
    LET drift == /\ info.hash # ""
                 /\ p \in DOMAIN target_snapshot
                 /\ target_snapshot[p].hash_digest # info.hash
        pl1 == IF drift THEN [pl EXCEPT !.updates = Append(@, DriftChange(p))] ELSE pl
    IN IF tree[p] # Absent
       THEN [pl1 EXCEPT !.removals = Append(@, RemovalChange(p))]
       ELSE pl1

\* variant: an iteration without the drift branch
ClassifyHistoryNoDrift(pl, p, info, target_snapshot, tree) ==
    IF tree[p] # Absent
    THEN [pl EXCEPT !.removals = Append(@, RemovalChange(p))]
    ELSE pl

\* variant: an iteration that removes without looking for the target file
ClassifyHistoryNoExistsCheck(pl, p, info, target_snapshot, tree) ==
    IF /\ info.hash # ""
       /\ p \in DOMAIN target_snapshot
       /\ target_snapshot[p].hash_digest # info.hash
    THEN [pl EXCEPT !.updates = Append(@, DriftChange(p))]
    ELSE [pl EXCEPT !.removals = Append(@, RemovalChange(p))]

\* one iteration of the loop over what is left of the history (lines 135-160)
ClassifyHistory(pl, p, info, target_snapshot, tree) ==
    IF /\ info.hash # ""
       /\ p \in DOMAIN target_snapshot
       /\ target_snapshot[p].hash_digest # info.hash
    THEN [pl EXCEPT !.updates = Append(@, DriftChange(p))]
    ELSE IF tree[p] # Absent
    THEN [pl EXCEPT !.removals = Append(@, RemovalChange(p))]
    ELSE pl

RECURSIVE HistoryLoop(_, _, _, _, _, _)
HistoryLoop(pl, order, i, history_files, target_snapshot, tree) ==
    IF i > Len(order) THEN pl
    ELSE HistoryLoop(ClassifyHistory(pl, order[i], history_files[order[i]],
                                     target_snapshot, tree),
                     order, i + 1, history_files, target_snapshot, tree)

\* variant: a payload taken from the target snapshot
PayloadOfTarget(source_snapshot, target_snapshot) ==
    [p \in DOMAIN target_snapshot |->
        [hash |-> target_snapshot[p].hash_digest,
         size |-> StrInt(target_snapshot[p].size),
         mtime |-> StrFloat(target_snapshot[p].mtime)]]
\* the snapshot payload (lines 162-169)
SnapshotPayload(source_snapshot, target_snapshot) ==
    [p \in DOMAIN source_snapshot |->
        [hash |-> source_snapshot[p].hash_digest,
         size |-> StrInt(source_snapshot[p].size),
         mtime |-> StrFloat(source_snapshot[p].mtime)]]

\* the modpack directory of a name exists
SourceRootExists(n) == n \in Modpacks

\* variant: a build whose history loop passes over the excluded paths
BuildShieldsExcluded(n, o1, o2) ==
    LET c1 == CacheAfterGet(disk, cache, n)
        history == c1[n]
        source_snapshot == gather_snapshot(src[n], SourceRootExists(n),
                               history.exclusions, SourceRoot(n))
        target_snapshot == gather_snapshot(tgt, tgtRoot, <<>>, GamePath)
        st == SourceLoop([plan |-> EmptyPlan, history_files |-> history.files],
                         KeysInOrder(o1, DOMAIN source_snapshot), 1,
                         source_snapshot, target_snapshot)
        left == {p \in DOMAIN st.history_files :
                    normalize_relative(p) \notin Range(history.exclusions)}
    IN [plan |-> HistoryLoop(st.plan, KeysInOrder(o2, left), 1,
                             st.history_files, target_snapshot, tgt),
        payload |-> SnapshotPayload(source_snapshot, target_snapshot),
        source_snapshot |-> source_snapshot,
        target_snapshot |-> target_snapshot,
        history |-> history,
        cache |-> c1]

\* variant: a build whose history_files is history.files itself, no copy
BuildAliasesHistory(n, o1, o2) ==
    LET c1 == CacheAfterGet(disk, cache, n)
        history == c1[n]
        source_snapshot == gather_snapshot(src[n], SourceRootExists(n),
                               history.exclusions, SourceRoot(n))
        target_snapshot == gather_snapshot(tgt, tgtRoot, <<>>, GamePath)
        st == SourceLoop([plan |-> EmptyPlan, history_files |-> history.files],
                         KeysInOrder(o1, DOMAIN source_snapshot), 1,
                         source_snapshot, target_snapshot)
    IN [plan |-> HistoryLoop(st.plan, KeysInOrder(o2, DOMAIN st.history_files), 1,
                             st.history_files, target_snapshot, tgt),
        payload |-> SnapshotPayload(source_snapshot, target_snapshot),
        source_snapshot |-> source_snapshot,
        target_snapshot |-> target_snapshot,
        history |-> history,
        cache |-> [c1 EXCEPT ![n].files = st.history_files]]
\* build_sync_plan for modpack n, the source walk enumerating in order o1 and
\* the remaining history in order o2: the plan, the payload, the two
\* snapshots, and the store's cache after get_history
build_sync_plan(n, o1, o2) ==
    LET c1 == CacheAfterGet(disk, cache, n)
        history == c1[n]
        source_snapshot == gather_snapshot(src[n], SourceRootExists(n),
                               history.exclusions, SourceRoot(n))
        target_snapshot == gather_snapshot(tgt, tgtRoot, <<>>, GamePath)
        st == SourceLoop([plan |-> EmptyPlan, history_files |-> history.files],
                         KeysInOrder(o1, DOMAIN source_snapshot), 1,
                         source_snapshot, target_snapshot)
    IN [plan |-> HistoryLoop(st.plan, KeysInOrder(o2, DOMAIN st.history_files), 1,
                             st.history_files, target_snapshot, tgt),
        payload |-> SnapshotPayload(source_snapshot, target_snapshot),
        source_snapshot |-> source_snapshot,
        target_snapshot |-> target_snapshot,
        history |-> history,
        cache |-> c1]

\* SyncPlan.is_empty
is_empty(pl) == ~(pl.adds # <<>> \/ pl.updates # <<>> \/ pl.removals # <<>>)

\* ------------------------------------------------------------------ actions
\* what the modpack directory holds when the tool is first used
FirstTrees == {t \in [Paths -> Cells] : t[PathA] \in {"x", "u"} /\ t[PathDA] \in {Absent, "x"}}

Init ==
    /\ src \in {s \in [Names -> [Paths -> Cells]] :
                  /\ s["m2"] = [p \in Paths |-> Absent]
                  /\ s["m1"] \in FirstTrees}
    /\ tgt = [p \in Paths |-> Absent]
    /\ tgtDirs = {}
    /\ tgtRoot = TRUE
    /\ tgtLocked = {}
    /\ backups = EmptyDict
    /\ disk = None
    /\ cache = EmptyDict
    /\ now = 0
    /\ plan = EmptyPlan
    /\ payload = EmptyDict
    /\ planFor = None
    /\ built = None
    /\ pc = "idle"
    /\ run = None
    /\ log = <<>>
    /\ edits = 0
    /\ heap = <<>>
    /\ lock = None
    /\ thr = <<>>
    /\ gui = None
    /\ worker = None

\* SyncEngine.create_sync_plan(modpack)
BuildPlan(n) ==
    /\ pc = "idle"
    /\ \E o1 \in Orders(Paths), o2 \in Orders(Paths) :
          LET r == build_sync_plan(n, o1, o2)
          IN /\ plan' = r.plan
             /\ payload' = r.payload
             /\ cache' = r.cache
             /\ built' = [name |-> n, src |-> src[n], tgt |-> tgt, tgtRoot |-> tgtRoot,
                          edits |-> edits,
                          history |-> r.history,
                          source_snapshot |-> r.source_snapshot,
                          target_snapshot |-> r.target_snapshot]
    /\ planFor' = Some(n)
    /\ UNCHANGED <<fsVars, disk, now, execVars, edits, threadVars, guiVars>>

\* SyncEngine.add_exclusion(modpack_name, relative_path)
AddExclusion(n, p) ==
    /\ pc = "idle"
    /\ edits < MaxEdits
    /\ LET r == add_exclusion(disk, cache, n, normalize_relative(p))
       IN disk' = r.disk /\ cache' = r.cache
    /\ edits' = edits + 1
    /\ UNCHANGED <<fsVars, now, planVars, execVars, threadVars, guiVars>>

\* SyncEngine.remove_exclusion(modpack_name, relative_path)
RemoveExclusion(n, p) ==
    /\ pc = "idle"
    /\ edits < MaxEdits
    /\ LET r == remove_exclusion(disk, cache, n, normalize_relative(p))
       IN disk' = r.disk /\ cache' = r.cache
    /\ edits' = edits + 1
    /\ UNCHANGED <<fsVars, now, planVars, execVars, threadVars, guiVars>>

\* the outside world creates, rewrites or deletes a file of a modpack
SourceEdit(n, p, v) ==
    /\ pc = "idle"
    /\ edits < MaxEdits
    /\ src[n][p] # v
    /\ src' = [src EXCEPT ![n][p] = v]
    /\ edits' = edits + 1
    /\ UNCHANGED <<tgt, tgtDirs, tgtRoot, backups, tgtLocked, storeVars, now, planVars, execVars, threadVars, guiVars>>

DirsOf(p) == IF ParentDir(p) = None THEN {} ELSE {ParentDir(p)[1]}

\* the outside world creates, rewrites or deletes a file of the game directory
TargetEdit(p, v) ==
    /\ pc = "idle"
    /\ edits < MaxEdits
    /\ tgtRoot
    /\ tgt[p] # v
    /\ tgt' = [tgt EXCEPT ![p] = v]
    /\ tgtDirs' = IF v = Absent THEN tgtDirs ELSE tgtDirs \cup DirsOf(p)
    /\ edits' = edits + 1
    /\ UNCHANGED <<src, tgtRoot, backups, tgtLocked, storeVars, now, planVars, execVars, threadVars, guiVars>>

DirIsEmpty(t, d) == \A p \in Paths : d \in DirsOf(p) => t[p] = Absent

\* the outside world removes the game directory with all it holds, or makes it
TargetRootEdit ==
    /\ pc = "idle"
    /\ edits < MaxEdits
    /\ tgtRoot' = ~tgtRoot
    /\ tgt' = [p \in Paths |-> Absent]
    /\ tgtDirs' = {}
    /\ edits' = edits + 1
    /\ UNCHANGED <<src, backups, tgtLocked, storeVars, now, planVars, execVars, threadVars, guiVars>>


\* ------------------------------------------------------------------ syncer.py
\* what a run records: the callbacks it issues and the file operations it does
Event(kind, p, info) == [ev |-> kind, path |-> p, info |-> info]

\* the file a change's source_path names, and the path of its destination
\* (change.target_path or target_path / change.relative_path)
SourceFile(change) ==
    IF change.source_path = None THEN Absent
    ELSE src[change.source_path[1][1][2]][change.source_path[1][2]]
DestRel(change) ==
    IF change.target_path # None THEN change.target_path[1][2]
    ELSE change.relative_path

\* variant: the copy goes to the root under the file's name
CopyFileToRoot(v, p, t, dirs) ==
    [raised |-> (v = "u"),
     tgt |-> IF v = "u" THEN t ELSE [t EXCEPT ![BaseName(p)] = v],
     tgtDirs |-> dirs \cup DirsOf(p)]

\* variant: the parents are made and nothing is copied
CopyFileMakesParentsOnly(v, p, t, dirs) ==
    [raised |-> (v = "u"), tgt |-> t, tgtDirs |-> dirs \cup DirsOf(p)]

\* copy_file(source, destination): ensure_parent makes the missing parents,
\* copy2 raises OSError when the source cannot be read
copy_file(v, p, t, dirs) ==
    [raised |-> (v = "u"),
     tgt |-> IF v = "u" THEN t ELSE [t EXCEPT ![p] = v],
     tgtDirs |-> dirs \cup DirsOf(p)]

\* variant: a backup that is already there is not written over
BackupKeepsFirst(b, v, p, timestamp) ==
    [raised |-> FALSE,
     backups |-> IF v = "u" THEN b ELSE b @@ (<<timestamp, BaseName(p)>> :> v)]

\* variant: the backup keeps the relative path of the file
BackupUnderRelativePath(b, v, p, timestamp) ==
    [raised |-> FALSE,
     backups |-> IF v = "u" THEN b ELSE (<<timestamp, p>> :> v) @@ b]

\* variant: the OSError of a failing copy is not caught
BackupRaises(b, v, p, timestamp) ==
    [raised |-> (v = "u"),
     backups |-> IF v = "u" THEN b ELSE (<<timestamp, BaseName(p)>> :> v) @@ b]

\* create_backup(source, backup_root): whether the call raises, and the backup
\* tree after it; the copy goes to <timestamp>/<source.name>, the OSError of
\* a copy that fails is caught and leaves no backup
create_backup(b, v, p, timestamp) ==
    [raised |-> FALSE,
     backups |-> IF v = "u" THEN b ELSE (<<timestamp, BaseName(p)>> :> v) @@ b]

\* remove_file(path)
remove_file(t, p) == [t EXCEPT ![p] = Absent]

\* variant: the answer of the callback is not looked at
AllowedAlways(called, answer) == TRUE

\* variant: a missing callback counts as a consent
AllowedByDefault(called, answer) == IF called THEN answer ELSE TRUE

\* allowed = confirm(change) if confirm else False (lines 110, 132);
\* called says the callback is given, answer is what it returns
Allowed(called, answer) == IF called THEN answer ELSE FALSE

\* variant: a tick that neither counts nor reports
TickNothing(r, l, text, p) == [run |-> r, log |-> l]

\* tick(message): the run's locals and the log after the call
Tick(r, l, text, p) ==
    [run |-> [r EXCEPT !.processed = @ + 1],
     log |-> Append(l, Event("progress", p, <<text, r.processed + 1, r.total_items>>))]

\* variant: the adds loop is left after its first item
AdvanceAfterFirstAdd(phase, r, pl) ==
    LET r1 == IF phase = "adds" /\ r.i > 1
              THEN [r EXCEPT !.i = 1, !.updates = pl.updates] ELSE r
        ph1 == IF phase = "adds" /\ r.i > 1 THEN "updates" ELSE phase
        r2 == IF ph1 = "updates" /\ r1.i > Len(r1.updates)
              THEN [r1 EXCEPT !.i = 1] ELSE r1
        ph2 == IF ph1 = "updates" /\ r1.i > Len(r1.updates) THEN "removals" ELSE ph1
    IN [pc |-> ph2, run |-> r2]

\* the control flow between the three loops: from the position (phase, r.i)
\* on to the next iteration there is, taking `list(plan.updates)` when the
\* update loop is entered (line 105); "removals" with r.i past the end is
\* the position of line 145
Advance(phase, r, pl) ==
    LET r1 == IF phase = "adds" /\ r.i > Len(pl.adds)
              THEN [r EXCEPT !.i = 1, !.updates = pl.updates] ELSE r
        ph1 == IF phase = "adds" /\ r.i > Len(pl.adds) THEN "updates" ELSE phase
        r2 == IF ph1 = "updates" /\ r1.i > Len(r1.updates)
              THEN [r1 EXCEPT !.i = 1] ELSE r1
        ph2 == IF ph1 = "updates" /\ r1.i > Len(r1.updates) THEN "removals" ELSE ph1
    IN [pc |-> ph2, run |-> r2]

\* variant: total_items leaves the updates out
LocalsWithoutUpdates(n, au, ar, cb, hcu, hcr) ==
    [name |-> n, auto_confirm_updates |-> au, auto_confirm_removals |-> ar,
     backup_root |-> cb, confirm_update |-> hcu, confirm_removal |-> hcr,
     total_items |-> Len(plan.adds) + Len(plan.removals),
     processed |-> 0, i |-> 1, updates |-> <<>>]

\* execute_plan, lines 74-82: the locals of a run
Locals(n, au, ar, cb, hcu, hcr) ==
    [name |-> n, auto_confirm_updates |-> au, auto_confirm_removals |-> ar,
     backup_root |-> cb, confirm_update |-> hcu, confirm_removal |-> hcr,
     total_items |-> Len(plan.adds) + Len(plan.updates) + Len(plan.removals),
     processed |-> 0, i |-> 1, updates |-> <<>>]

\* variant: a start that does not look for the target root
StartWithoutCheck(n, au, ar, cb, hcu, hcr) ==
    LET a == Advance("adds", Locals(n, au, ar, cb, hcu, hcr), plan)
    IN pc' = a.pc /\ run' = a.run /\ now' = now + 1
\* execute_plan, lines 67-88: the target check, then the locals
execute_plan_start(n, au, ar, cb, hcu, hcr) ==
    IF ~tgtRoot
    THEN pc' = "raised" /\ run' = None /\ now' = now
    ELSE LET a == Advance("adds", Locals(n, au, ar, cb, hcu, hcr), plan)
         IN pc' = a.pc /\ run' = a.run /\ now' = now + 1

\* the update pass of a run that starts now has an item to process, and its
\* removal pass has a destination that exists (the run itself changes neither)
UpdatePassWorks ==
    \/ plan.updates # <<>>
    \/ \E i \in DOMAIN plan.adds : tgt[DestRel(plan.adds[i])] # Absent
RemovalPassWorks ==
    \E i \in DOMAIN plan.removals : tgt[DestRel(plan.removals[i])] # Absent

\* SyncEngine.execute_plan(modpack, plan, snapshot_payload, ...) is called
\* with the plan and payload last built; au, ar are the effective
\* auto-confirm flags, cb says a backup root is in force, hcu and hcr that
\* the confirmation callbacks are given.  progress_callback is given.
\* An argument the run cannot read is drawn as TRUE only: a callback whose
\* flag is set, the update arguments when the update pass has nothing to
\* process, the removal arguments when no removal has a destination, the
\* backup root when neither pass works.
ExecuteStart(n, au, ar, cb, hcu, hcr) ==
    /\ pc = "idle"
    /\ planFor = Some(n)
    /\ now < MaxRuns
    /\ (au => hcu) /\ (ar => hcr)
    /\ (~UpdatePassWorks => au)
    /\ (~RemovalPassWorks => ar)
    /\ (~UpdatePassWorks /\ ~RemovalPassWorks => cb)
    /\ execute_plan_start(n, au, ar, cb, hcu, hcr)
    /\ log' = <<>>
    /\ UNCHANGED <<fsVars, storeVars, planVars, edits, threadVars, guiVars>>

\* one iteration of `for change in plan.adds` (lines 90-103)
AddStep ==
    /\ pc = "adds"
    /\ run.i <= Len(plan.adds)
    /\ LET change == plan.adds[run.i]
           p == DestRel(change)
           next == [run EXCEPT !.i = @ + 1]
       IN IF tgt[p] # Absent
          THEN LET pl == [plan EXCEPT
                             !.adds[run.i].action = "update",
                             !.updates = Append(@, [change EXCEPT !.action = "update"])]
                   a == Advance("adds", next, pl)
               IN /\ plan' = pl
                  /\ pc' = a.pc
                  /\ run' = a.run
                  /\ UNCHANGED <<tgt, tgtDirs, log>>
          ELSE IF SourceFile(change) = Absent
          THEN LET a == Advance("adds", next, plan)
               IN /\ log' = Append(log, Event("log", change.relative_path,
                                              <<"Source missing">>))
                  /\ pc' = a.pc
                  /\ run' = a.run
                  /\ UNCHANGED <<tgt, tgtDirs, plan>>
          ELSE LET c == copy_file(SourceFile(change), p, tgt, tgtDirs)
                   l1 == Append(log, Event("copy", p, <<>>))
                   l2 == Append(l1, Event("log", change.relative_path, <<"Copied">>))
                   t == Tick(next, l2, "Copied", change.relative_path)
                   a == Advance("adds", t.run, plan)
               IN /\ tgt' = c.tgt
                  /\ tgtDirs' = c.tgtDirs
                  /\ pc' = IF c.raised THEN "raised" ELSE a.pc
                  /\ run' = IF c.raised THEN run ELSE a.run
                  /\ log' = IF c.raised THEN l1 ELSE t.log
                  /\ UNCHANGED plan
    /\ UNCHANGED <<src, tgtRoot, backups, tgtLocked, storeVars, now, payload, planFor, built, edits, threadVars, guiVars>>

\* one iteration of `for change in list(plan.updates)` (lines 105-124);
\* answer is what confirm_update returns when it is called
UpdateStep(answer) ==
    /\ pc = "updates"
    /\ run.i <= Len(run.updates)
    /\ LET change == run.updates[run.i]
           p == DestRel(change)
           next == [run EXCEPT !.i = @ + 1]
           asks == ~run.auto_confirm_updates
           called == asks /\ run.confirm_update
           allowed == Allowed(called, answer)
           l0 == IF called
                 THEN Append(log, Event("confirm_update", change.relative_path, <<answer>>))
                 ELSE log
       IN /\ (~called => answer = FALSE)
          /\ IF asks /\ ~allowed
             THEN LET l1 == Append(l0, Event("log", change.relative_path, <<"Skipped update">>))
                      t == Tick(next, l1, "Skipped", change.relative_path)
                      a == Advance("updates", t.run, plan)
                  IN /\ plan' = [plan EXCEPT !.skipped = Append(@, change)]
                     /\ pc' = a.pc
                     /\ run' = a.run
                     /\ log' = t.log
                     /\ UNCHANGED <<tgt, tgtDirs, backups>>
             ELSE IF SourceFile(change) # Absent
             THEN LET backs == run.backup_root /\ tgt[p] # Absent
                      b == IF backs THEN create_backup(backups, tgt[p], p, now)
                           ELSE [raised |-> FALSE, backups |-> backups]
                      l1 == IF backs THEN Append(l0, Event("backup", p, <<now>>)) ELSE l0
                      c == copy_file(SourceFile(change), p, tgt, tgtDirs)
                      l2 == Append(l1, Event("copy", p, <<>>))
                      l3 == Append(l2, Event("log", change.relative_path, <<"Updated">>))
                      t == Tick(next, l3, "Updated", change.relative_path)
                      a == Advance("updates", t.run, plan)
                  IN IF b.raised
                     THEN /\ backups' = b.backups
                          /\ pc' = "raised"
                          /\ log' = l1
                          /\ UNCHANGED <<tgt, tgtDirs, run, plan>>
                     ELSE /\ backups' = b.backups
                          /\ tgt' = c.tgt
                          /\ tgtDirs' = c.tgtDirs
                          /\ pc' = IF c.raised THEN "raised" ELSE a.pc
                          /\ run' = IF c.raised THEN run ELSE a.run
                          /\ log' = IF c.raised THEN l2 ELSE t.log
                          /\ UNCHANGED plan
             ELSE LET l1 == Append(l0, Event("log", change.relative_path,
                                             <<"Target changed externally">>))
                      t == Tick(next, l1, "Updated", change.relative_path)
                      a == Advance("updates", t.run, plan)
                  IN /\ pc' = a.pc
                     /\ run' = a.run
                     /\ log' = t.log
                     /\ UNCHANGED <<tgt, tgtDirs, backups, plan>>
    /\ UNCHANGED <<src, tgtRoot, tgtLocked, storeVars, now, payload, planFor, built, edits, threadVars, guiVars>>

\* one iteration of `for change in plan.removals` (lines 126-143);
\* answer is what confirm_removal returns when it is called
RemovalStep(answer) ==
    /\ pc = "removals"
    /\ run.i <= Len(plan.removals)
    /\ LET change == plan.removals[run.i]
           p == DestRel(change)
           next == [run EXCEPT !.i = @ + 1]
           exists == tgt[p] # Absent
           asks == exists /\ ~run.auto_confirm_removals
           called == asks /\ run.confirm_removal
           allowed == Allowed(called, answer)
           l0 == IF called
                 THEN Append(log, Event("confirm_removal", change.relative_path, <<answer>>))
                 ELSE log
       IN /\ (~called => answer = FALSE)
          /\ IF ~exists
             THEN /\ run' = next
                  /\ UNCHANGED <<tgt, backups, plan, log, pc>>
             ELSE IF asks /\ ~allowed
             THEN LET l1 == Append(l0, Event("log", change.relative_path, <<"Kept">>))
                      t == Tick(next, l1, "Kept", change.relative_path)
                  IN /\ plan' = [plan EXCEPT !.skipped = Append(@, change)]
                     /\ run' = t.run
                     /\ log' = t.log
                     /\ UNCHANGED <<tgt, backups, pc>>
             ELSE LET b == IF run.backup_root
                           THEN create_backup(backups, tgt[p], p, now)
                           ELSE [raised |-> FALSE, backups |-> backups]
                      l1 == IF run.backup_root
                            THEN Append(l0, Event("backup", p, <<now>>)) ELSE l0
                      l2 == Append(l1, Event("remove", p, <<>>))
                      l3 == Append(l2, Event("log", change.relative_path, <<"Removed">>))
                      t == Tick(next, l3, "Removed", change.relative_path)
                  IN IF b.raised
                     THEN /\ backups' = b.backups
                          /\ pc' = "raised"
                          /\ log' = l1
                          /\ UNCHANGED <<tgt, run, plan>>
                     ELSE /\ backups' = b.backups
                          /\ tgt' = remove_file(tgt, p)
                          /\ run' = t.run
                          /\ log' = t.log
                          /\ pc' = pc
                          /\ UNCHANGED plan
    /\ UNCHANGED <<src, tgtDirs, tgtRoot, tgtLocked, storeVars, now, payload, planFor, built, edits, threadVars, guiVars>>

\* the removals loop ends:
\* history_store.update_file_snapshot(modpack.name, snapshot_payload) (line 145)
Persist ==
    /\ pc = "removals"
    /\ run.i > Len(plan.removals)
    /\ LET r == update_file_snapshot(disk, cache, run.name, payload, now)
       IN disk' = r.disk /\ cache' = r.cache
    /\ pc' = "prune"
    /\ UNCHANGED <<fsVars, now, planVars, run, log, edits, threadVars, guiVars>>

\* how deep a directory lies under the root, and the directories in it
Depth(d) == Cardinality({i \in DOMAIN d : d[i] \in {"/", "\\"}})
Children(dirs, d) == {c \in dirs : ParentDir(c) = Some(d)}

\* candidate.rmdir() succeeds (lines 85-89): the directory holds no file and
\* no directory, and is none of those whose rmdir raises OSError for another
\* reason (the set `failing`)
RmdirWorks(t, dirs, failing, d) ==
    DirIsEmpty(t, d) /\ Children(dirs, d) = {} /\ d \notin failing

\* os.walk(base_path, topdown=False): the directories at depth k are tried
\* after all deeper ones
RECURSIVE PruneFrom(_, _, _, _)
PruneFrom(t, dirs, failing, k) ==
    IF k < 0 THEN dirs
    ELSE PruneFrom(t, {d \in dirs : Depth(d) # k \/ ~RmdirWorks(t, dirs, failing, d)},
                   failing, k - 1)

\* variant: one pass from the top, a directory is tried before those in it
PruneTopDown(t, dirs, failing) ==
    {d \in dirs : ~RmdirWorks(t, dirs, failing, d)}

\* prune_empty_dirs(base_path): the directories left under the root
prune_empty_dirs(t, dirs, failing) ==
    LET deepest == IF dirs = {} THEN 0
                   ELSE CHOOSE k \in {Depth(d) : d \in dirs} :
                            \A d \in dirs : Depth(d) <= k
    IN PruneFrom(t, dirs, failing, deepest)

\* filesystem.prune_empty_dirs(self.config.game_path) (line 146)
Prune ==
    /\ pc = "prune"
    /\ tgtDirs' = IF tgtRoot THEN prune_empty_dirs(tgt, tgtDirs, tgtLocked) ELSE tgtDirs
    /\ pc' = "done"
    /\ UNCHANGED <<src, tgt, tgtRoot, backups, tgtLocked, storeVars, now, planVars, run, log, edits, threadVars, guiVars>>

\* execute_plan returns, or its exception reaches the caller.  The plan and
\* the payload belong to one preview/execute cycle: the caller drops them.
Return ==
    /\ pc \in {"done", "raised"}
    /\ pc' = "idle"
    /\ run' = None
    /\ log' = <<>>
    /\ plan' = EmptyPlan
    /\ payload' = EmptyDict
    /\ planFor' = None
    /\ built' = None
    /\ UNCHANGED <<fsVars, storeVars, now, edits, threadVars, guiVars>>

Next ==
    \/ \E n \in Modpacks : BuildPlan(n)
    \/ \E n \in Names, p \in Paths : AddExclusion(n, p)
    \/ \E n \in Names, p \in Paths : RemoveExclusion(n, p)
    \/ \E n \in Modpacks, p \in Paths, v \in Cells : SourceEdit(n, p, v)
    \/ \E p \in Paths, v \in Cells : TargetEdit(p, v)
    \/ TargetRootEdit
    \/ \E n \in Modpacks, au \in BOOLEAN, ar \in BOOLEAN, cb \in BOOLEAN,
          hcu \in BOOLEAN, hcr \in BOOLEAN : ExecuteStart(n, au, ar, cb, hcu, hcr)
    \/ AddStep
    \/ \E answer \in BOOLEAN : UpdateStep(answer)
    \/ \E answer \in BOOLEAN : RemovalStep(answer)
    \/ Persist
    \/ Prune
    \/ Return

Spec == Init /\ [][Next]_vars

\* ------------------------------------------- the end of a run on its own
\* a directory of the game directory that holds no file of a modpack, made by
\* the outside world inside the directory d
DirDE == <<"d", "\\", "e">>
GameDirs == Dirs \cup {DirDE}

\* the directories of a tree: every file has its directory, every directory
\* its parent
DirSets(t) ==
    {D \in SUBSET GameDirs :
        /\ \A p \in Paths : t[p] # Absent => DirsOf(p) \subseteq D
        /\ \A d \in D : ParentDir(d) # None => ParentDir(d)[1] \in D}

\* execute_plan has come to the end of its removals loop (line 145) in a run
\* for a modpack that is empty and has no history: the plan is empty,
\* whatever the game directory holds
PruneInit ==
    /\ src = [n \in Names |-> [p \in Paths |-> Absent]]
    /\ tgt \in [Paths -> Cells]
    /\ tgtDirs \in DirSets(tgt)
    /\ tgtRoot = TRUE
    /\ tgtLocked \in SUBSET tgtDirs
    /\ backups = EmptyDict
    /\ disk = None
    /\ cache = ("m1" :> FreshHistory)
    /\ now = 1
    /\ plan = EmptyPlan
    /\ payload = EmptyDict
    /\ planFor = Some("m1")
    /\ built = None
    /\ pc = "removals"
    /\ run = [name |-> "m1", auto_confirm_updates |-> TRUE,
              auto_confirm_removals |-> TRUE, backup_root |-> TRUE,
              confirm_update |-> TRUE, confirm_removal |-> TRUE,
              total_items |-> 0, processed |-> 0, i |-> 1, updates |-> <<>>]
    /\ log = <<>>
    /\ edits = 0
    /\ heap = <<>>
    /\ lock = None
    /\ thr = <<>>
    /\ gui = None
    /\ worker = None

PruneNext == Persist \/ Prune \/ Return

PruneSpec == PruneInit /\ [][PruneNext]_vars

\* ------------------------------------------- the SyncHistoryStore on its own
\* A store over a history file of any content, called by get_history and
\* save_history; a new store may be made over the same file.  log holds the
\* calls made, each with the history it returned or was given.
StoreEvent(kind, n, h) == [ev |-> kind, name |-> n, history |-> h]

FileEntry == [hash |-> "hx", size |-> StrInt(StatSize("x")), mtime |-> StrFloat(StatMtime("x"))]
StoreHistories ==
    {FreshHistory,
     [files |-> (PathA :> FileEntry), exclusions |-> <<>>, last_synced |-> Some(1)],
     [files |-> EmptyDict, exclusions |-> <<normalize_relative(PathDA)>>, last_synced |-> None]}

\* the history files a store may find
StoreDocs ==
    {None} \cup {Bad(k) : k \in BadKinds}
           \cup {write_raw("m1" :> h) : h \in StoreHistories}

StoreInit ==
    /\ src = [n \in Names |-> [p \in Paths |-> Absent]]
    /\ tgt = [p \in Paths |-> Absent]
    /\ tgtDirs = {}
    /\ tgtRoot = TRUE
    /\ tgtLocked = {}
    /\ backups = EmptyDict
    /\ disk \in StoreDocs
    /\ cache = EmptyDict
    /\ now = 0
    /\ plan = EmptyPlan
    /\ payload = EmptyDict
    /\ planFor = None
    /\ built = None
    /\ pc = "idle"
    /\ run = None
    /\ log = <<>>
    /\ edits = 0
    /\ heap = <<>>
    /\ lock = None
    /\ thr = <<>>
    /\ gui = None
    /\ worker = None

\* SyncHistoryStore.get_history(n)
StoreGet(n) ==
    /\ Len(log) < MaxStoreOps
    /\ IF load_all_raises(disk, cache)
       THEN /\ log' = Append(log, StoreEvent("get_history raises", n, FreshHistory))
            /\ UNCHANGED cache
       ELSE /\ log' = Append(log, StoreEvent("get_history", n, get_history(disk, cache, n)))
            /\ cache' = CacheAfterGet(disk, cache, n)
    /\ UNCHANGED <<fsVars, disk, now, planVars, pc, run, edits, threadVars, guiVars>>

\* SyncHistoryStore.save_history(SyncHistory(modpack_name=n, ...))
StoreSave(n, h) ==
    /\ Len(log) < MaxStoreOps
    /\ IF save_history_raises(disk)
       THEN /\ log' = Append(log, StoreEvent("save_history raises", n, h))
            /\ UNCHANGED <<disk, cache>>
       ELSE /\ log' = Append(log, StoreEvent("save_history", n, h))
            /\ disk' = save_history(disk, cache, n, h).disk
            /\ cache' = save_history(disk, cache, n, h).cache
    /\ UNCHANGED <<fsVars, now, planVars, pc, run, edits, threadVars, guiVars>>

\* the relative paths the engine hands to the store
RelPaths == {normalize_relative(p) : p \in Paths}

\* an exclusion call: the path, the history of the name after the call and
\* whether the call saved
ExclusionEvent(kind, n, rel, h, saved) ==
    [ev |-> kind, name |-> n, history |-> h, path |-> rel, saved |-> saved]

\* SyncHistoryStore.add_exclusion(n, rel)
StoreAddExclusion(n, rel) ==
    /\ Len(log) < MaxStoreOps
    /\ IF load_all_raises(disk, cache)
       THEN /\ log' = Append(log, ExclusionEvent("add_exclusion raises", n, rel, FreshHistory, FALSE))
            /\ UNCHANGED <<disk, cache>>
       ELSE LET r == add_exclusion(disk, cache, n, rel)
            IN IF exclusion_raises(disk, cache, r.saved)
               THEN /\ log' = Append(log, ExclusionEvent("add_exclusion raises", n, rel, r.cache[n], FALSE))
                    /\ cache' = [CacheAfterGet(disk, cache, n) EXCEPT ![n] = r.cache[n]]
                    /\ UNCHANGED disk
               ELSE /\ log' = Append(log, ExclusionEvent("add_exclusion", n, rel, r.cache[n], r.saved))
                    /\ disk' = r.disk
                    /\ cache' = r.cache
    /\ UNCHANGED <<fsVars, now, planVars, pc, run, edits, threadVars, guiVars>>

\* SyncHistoryStore.remove_exclusion(n, rel)
StoreRemoveExclusion(n, rel) ==
    /\ Len(log) < MaxStoreOps
    /\ IF load_all_raises(disk, cache)
       THEN /\ log' = Append(log, ExclusionEvent("remove_exclusion raises", n, rel, FreshHistory, FALSE))
            /\ UNCHANGED <<disk, cache>>
       ELSE LET r == remove_exclusion(disk, cache, n, rel)
            IN IF exclusion_raises(disk, cache, r.saved)
               THEN /\ log' = Append(log, ExclusionEvent("remove_exclusion raises", n, rel, r.cache[n], FALSE))
                    /\ cache' = [CacheAfterGet(disk, cache, n) EXCEPT ![n] = r.cache[n]]
                    /\ UNCHANGED disk
               ELSE /\ log' = Append(log, ExclusionEvent("remove_exclusion", n, rel, r.cache[n], r.saved))
                    /\ disk' = r.disk
                    /\ cache' = r.cache
    /\ UNCHANGED <<fsVars, now, planVars, pc, run, edits, threadVars, guiVars>>

\* SyncHistoryStore(history_path): a new store over the same file
StoreReopen ==
    /\ Len(log) < MaxStoreOps
    /\ cache' = EmptyDict
    /\ log' = Append(log, StoreEvent("reopen", "", FreshHistory))
    /\ UNCHANGED <<fsVars, disk, now, planVars, pc, run, edits, threadVars, guiVars>>

StoreNext ==
    \/ \E n \in Names : StoreGet(n)
    \/ \E n \in Names, h \in StoreHistories : StoreSave(n, h)
    \/ \E n \in Names, rel \in RelPaths : StoreAddExclusion(n, rel)
    \/ \E n \in Names, rel \in RelPaths : StoreRemoveExclusion(n, rel)
    \/ StoreReopen

StoreSpec == StoreInit /\ [][StoreNext]_vars

\* ------------------------------------- two threads on one SyncHistoryStore
\* The engine's store is shared by the GUI thread and the worker threads.
\* Here cache[n] is a reference into heap, as self._cache[n] is a reference to
\* a SyncHistory object: two threads that got the same object see each
\* other's changes.  A step is one region of a method in which no other
\* thread can act on what the region reads or writes; code under
\* `with self._lock` is split where code outside the lock (get_history lines
\* 50-53, the append of add_exclusion) can come between.  log holds the
\* records written to the document, in the order of the writes.
Threads == {"t1", "t2"}

Frame(pos, op, n, rel, obj, raw, left) ==
    [pc |-> pos, op |-> op, name |-> n, path |-> rel, obj |-> obj, raw |-> raw,
     left |-> left]

\* variant: the lock is taken without waiting for it
LockIgnored(l) == TRUE

\* threading.Lock: a thread enters `with self._lock` when no thread holds it
lock_free(l) == l = None

At(t, pos) == thr[t].pc = pos
Goto(t, pos) == thr' = [thr EXCEPT ![t].pc = pos]

\* the documents the two threads may find
ThreadDocs == {None} \cup {write_raw("m1" :> h) : h \in StoreHistories}

ThreadInit ==
    /\ src = [n \in Names |-> [p \in Paths |-> Absent]]
    /\ tgt = [p \in Paths |-> Absent]
    /\ tgtDirs = {}
    /\ tgtRoot = TRUE
    /\ tgtLocked = {}
    /\ backups = EmptyDict
    /\ disk \in ThreadDocs
    /\ cache = EmptyDict
    /\ now = 0
    /\ plan = EmptyPlan
    /\ payload = EmptyDict
    /\ planFor = None
    /\ built = None
    /\ pc = "idle"
    /\ run = None
    /\ log = <<>>
    /\ edits = 0
    /\ heap = <<>>
    /\ lock = None
    /\ thr = [t \in Threads |-> Frame("idle", "", "", <<>>, 0, EmptyDict, MaxThreadCalls)]
    /\ gui = None
    /\ worker = None

ThreadFrame == <<fsVars, now, planVars, pc, run, edits, guiVars>>

\* a thread calls save_history(SyncHistory(n, ...)) with an object of its own
CallSaveHistory(t, n, h) ==
    /\ thr[t].pc \in {"idle", "returned"}
    /\ thr[t].left > 0
    /\ heap' = Append(heap, h)
    /\ thr' = [thr EXCEPT ![t] = Frame("save_acquire", "save_history", n, <<>>,
                                       Len(heap) + 1, EmptyDict, @.left - 1)]
    /\ UNCHANGED <<ThreadFrame, disk, cache, lock, log>>

\* a thread calls add_exclusion(n, rel): it enters get_history and load_all
CallAddExclusion(t, n, rel) ==
    /\ thr[t].pc \in {"idle", "returned"}
    /\ thr[t].left > 0
    /\ thr' = [thr EXCEPT ![t] = Frame("load_acquire", "add_exclusion", n, rel,
                                       0, EmptyDict, @.left - 1)]
    /\ UNCHANGED <<ThreadFrame, disk, cache, heap, lock, log>>

\* load_all, lines 35-38: take the lock; return the cache when it holds
\* something (leaving the lock), else read the document
LoadAcquire(t) ==
    /\ At(t, "load_acquire")
    /\ lock_free(lock)
    /\ IF DOMAIN cache # {}
       THEN Goto(t, "get_lookup") /\ UNCHANGED lock
       ELSE IF load_all_raises(disk, cache)
            THEN Goto(t, "raised") /\ UNCHANGED lock
            ELSE /\ thr' = [thr EXCEPT ![t].pc = "load_fill", ![t].raw = read_raw(disk)]
                 /\ lock' = Some(t)
    /\ UNCHANGED <<ThreadFrame, disk, cache, heap, log>>

\* the names of a dict in the order of its items
NameSeq(d) ==
    IF DOMAIN d = Names THEN <<"m1", "m2">>
    ELSE IF DOMAIN d = {} THEN <<>> ELSE <<CHOOSE n \in DOMAIN d : TRUE>>

RefOf(seq, n) == CHOOSE i \in DOMAIN seq : seq[i] = n

\* load_all, lines 39-46: a new SyncHistory object for every name of the
\* document goes into the cache; the lock is left
LoadFill(t) ==
    /\ At(t, "load_fill")
    /\ LET raw == thr[t].raw
           order == NameSeq(raw)
       IN /\ heap' = heap \o [i \in DOMAIN order |-> raw[order[i]]]
          /\ cache' = [n \in DOMAIN raw \cup DOMAIN cache |->
                          IF n \in DOMAIN raw THEN Len(heap) + RefOf(order, n)
                          ELSE cache[n]]
    /\ lock' = None
    /\ Goto(t, "get_lookup")
    /\ UNCHANGED <<ThreadFrame, disk, log>>

\* get_history, lines 50-51
GetLookup(t) ==
    /\ At(t, "get_lookup")
    /\ IF thr[t].name \in DOMAIN cache
       THEN thr' = [thr EXCEPT ![t].pc = "exclusion_check", ![t].obj = cache[thr[t].name]]
       ELSE Goto(t, "get_insert")
    /\ UNCHANGED <<ThreadFrame, disk, cache, heap, lock, log>>

\* get_history, lines 52-54: a new object is cached under the name
GetInsert(t) ==
    /\ At(t, "get_insert")
    /\ heap' = Append(heap, FreshHistory)
    /\ cache' = (thr[t].name :> (Len(heap) + 1)) @@ cache
    /\ thr' = [thr EXCEPT ![t].pc = "exclusion_check", ![t].obj = Len(heap) + 1]
    /\ UNCHANGED <<ThreadFrame, disk, lock, log>>

\* add_exclusion, line 80
ExclusionCheck(t) ==
    /\ At(t, "exclusion_check")
    /\ IF ~InSeq(thr[t].path, heap[thr[t].obj].exclusions)
       THEN Goto(t, "exclusion_append")
       ELSE Goto(t, "returned")
    /\ UNCHANGED <<ThreadFrame, disk, cache, heap, lock, log>>

\* add_exclusion, line 81
ExclusionAppend(t) ==
    /\ At(t, "exclusion_append")
    /\ heap' = [heap EXCEPT ![thr[t].obj].exclusions = Append(@, thr[t].path)]
    /\ Goto(t, "save_acquire")
    /\ UNCHANGED <<ThreadFrame, disk, cache, lock, log>>

\* save_history, lines 62-63: take the lock and read the document
SaveAcquire(t) ==
    /\ At(t, "save_acquire")
    /\ lock_free(lock)
    /\ IF save_history_raises(disk)
       THEN Goto(t, "raised") /\ UNCHANGED lock
       ELSE /\ thr' = [thr EXCEPT ![t].pc = "save_write", ![t].raw = read_raw(disk)]
            /\ lock' = Some(t)
    /\ UNCHANGED <<ThreadFrame, disk, cache, heap, log>>

\* save_history, lines 64-69: the record of the object replaces the entry of
\* its name in what was read, and that is written
SaveWrite(t) ==
    /\ At(t, "save_write")
    /\ disk' = write_raw((thr[t].name :> heap[thr[t].obj]) @@ thr[t].raw)
    /\ log' = Append(log, StoreEvent("write", thr[t].name, heap[thr[t].obj]))
    /\ Goto(t, "save_cache")
    /\ UNCHANGED <<ThreadFrame, cache, heap, lock>>

\* save_history, line 70: the object is cached; the lock is left
SaveCache(t) ==
    /\ At(t, "save_cache")
    /\ cache' = (thr[t].name :> thr[t].obj) @@ cache
    /\ lock' = None
    /\ Goto(t, "returned")
    /\ UNCHANGED <<ThreadFrame, disk, heap, log>>

ThreadNext ==
    \/ \E t \in Threads, n \in Names, h \in StoreHistories : CallSaveHistory(t, n, h)
    \/ \E t \in Threads, n \in Names, rel \in RelPaths : CallAddExclusion(t, n, rel)
    \/ \E t \in Threads : LoadAcquire(t)
    \/ \E t \in Threads : LoadFill(t)
    \/ \E t \in Threads : GetLookup(t)
    \/ \E t \in Threads : GetInsert(t)
    \/ \E t \in Threads : ExclusionCheck(t)
    \/ \E t \in Threads : ExclusionAppend(t)
    \/ \E t \in Threads : SaveAcquire(t)
    \/ \E t \in Threads : SaveWrite(t)
    \/ \E t \in Threads : SaveCache(t)

ThreadSpec == ThreadInit /\ [][ThreadNext]_vars

\* ------------------------------------------------------------ main_window.py
\* The window once the modpack list is loaded and m1 is selected, with its
\* PreviewWorker and its SyncWorker.  The engine calls of the workers are
\* taken as a whole: a build returns some plan, a run asks for some
\* confirmations and ends or raises.  Signals of the workers are queued to
\* the GUI thread; a QMessageBox is modal and runs an event loop of its own,
\* so that queued signals are delivered while it is open and the user can
\* act on the topmost dialog only.  The event loop delivers the signals
\* posted to it before it dispatches the user's next input.
\*
\* a plan as the window sees it: is_empty(), how many updates and removals
\* will ask, whether the preview tree lists items, whether the snapshot
\* payload holds anything
PlanKinds ==
    {k \in [empty : BOOLEAN, asks : 0..MaxAsks, listed : BOOLEAN, payload : BOOLEAN] :
        /\ k.empty => k.asks = 0
        /\ ~k.empty => k.listed}

Signal(sig, arg) == [sig |-> sig, arg |-> arg]
Dialog(kind, key) == [kind |-> kind, key |-> key]

\* SyncWorker.__init__ and start(): no response yet, the mutex free; id tells
\* a worker from the one made before it
NewWorker(asks, id) ==
    [pc |-> "running", asks |-> asks, key |-> 0, mutex |-> None,
     responses |-> EmptyDict, got |-> EmptyDict, id |-> id]

NoWorker == [NewWorker(0, 0) EXCEPT !.pc = "none"]

\* QThread.isRunning() of self.sync_worker
SyncRunning(w) == w.pc \notin {"none", "done"}

GuiInit ==
    /\ src = [n \in Names |-> [p \in Paths |-> Absent]]
    /\ tgt = [p \in Paths |-> Absent]
    /\ tgtDirs = {}
    /\ tgtRoot = TRUE
    /\ tgtLocked = {}
    /\ backups = EmptyDict
    /\ disk = None
    /\ cache = EmptyDict
    /\ now = 0
    /\ plan = EmptyPlan
    /\ payload = EmptyDict
    /\ planFor = None
    /\ built = None
    /\ pc = "idle"
    /\ run = None
    /\ log = <<>>
    /\ edits = 0
    /\ heap = <<>>
    /\ lock = None
    /\ thr = <<>>
    /\ gui = [preview_btn |-> TRUE, sync_btn |-> FALSE, exclude_btn |-> FALSE,
              refresh_btn |-> TRUE, current_plan |-> None, items |-> FALSE,
              selected |-> FALSE, preview_worker |-> "none", queue |-> <<>>,
              dialogs |-> <<>>]
    /\ worker = NoWorker

GuiFrame == <<fsVars, now, planVars, execVars, edits, threadVars>>

\* the user's input reaches the main window: no message box is open
UserCanAct == gui.queue = <<>> /\ gui.dialogs = <<>>
\* the user's input reaches the topmost message box
UserCanAnswer == gui.queue = <<>> /\ gui.dialogs # <<>>

Push(g, d) == [g EXCEPT !.dialogs = Append(@, d)]
PopDialog(g) == [g EXCEPT !.dialogs = SubSeq(@, 1, Len(@) - 1)]
TopDialog == gui.dialogs[Len(gui.dialogs)]

\* _preview_selected_modpack
preview_selected_modpack(g) ==
    IF g.preview_worker = "running" THEN g
    ELSE [g EXCEPT !.preview_btn = FALSE, !.sync_btn = FALSE,
                   !.exclude_btn = FALSE, !.preview_worker = "running"]

\* the user presses Preview Changes
ClickPreview ==
    /\ UserCanAct
    /\ gui.preview_btn
    /\ gui' = preview_selected_modpack(gui)
    /\ UNCHANGED <<GuiFrame, storeVars, worker>>

\* PreviewWorker.run: the build returns a plan or raises
PreviewWorkerRun ==
    /\ gui.preview_worker = "running"
    /\ \E s \in {Signal("preview_finished", k) : k \in PlanKinds}
                 \cup {Signal("preview_error", 0)} :
          gui' = [gui EXCEPT !.preview_worker = "finished", !.queue = Append(@, s)]
    /\ UNCHANGED <<GuiFrame, storeVars, worker>>

\* _on_preview_finished, with _populate_preview and the selection change
\* that clearing the tree causes
on_preview_finished(g, k) ==
    LET g1 == [g EXCEPT !.preview_btn = TRUE, !.current_plan = Some(k),
                        !.items = k.listed, !.selected = FALSE,
                        !.sync_btn = ~k.empty, !.exclude_btn = FALSE]
    IN IF k.empty THEN Push(g1, Dialog("information", 0)) ELSE g1

\* _on_preview_error
on_preview_error(g) == Push([g EXCEPT !.preview_btn = TRUE], Dialog("information", 0))

\* _on_sync_finished up to its message box
on_sync_finished(g) ==
    Push([g EXCEPT !.preview_btn = TRUE, !.refresh_btn = TRUE], Dialog("sync_complete", 0))

\* _on_sync_error
on_sync_error(g) ==
    Push([g EXCEPT !.preview_btn = TRUE, !.refresh_btn = TRUE], Dialog("information", 0))

\* _handle_confirm_update / _handle_confirm_removal up to the message box
handle_confirm(g, key) == Push(g, Dialog("confirm_change", key))

\* the event loop of the GUI thread delivers the oldest queued signal
Deliver ==
    /\ gui.queue # <<>>
    /\ LET s == Head(gui.queue)
           g == [gui EXCEPT !.queue = Tail(@)]
       IN gui' = CASE s.sig = "preview_finished" -> on_preview_finished(g, s.arg)
                   [] s.sig = "preview_error" -> on_preview_error(g)
                   [] s.sig = "sync_finished" -> on_sync_finished(g)
                   [] s.sig = "sync_error" -> on_sync_error(g)
                   [] s.sig = "confirm" -> handle_confirm(g, s.arg)
    /\ UNCHANGED <<GuiFrame, storeVars, worker>>

\* the user selects or deselects an item of the preview tree:
\* _on_preview_selection_changed
SelectItem(b) ==
    /\ UserCanAct
    /\ gui.items
    /\ gui.selected # b
    /\ gui' = [gui EXCEPT !.selected = b,
                          !.exclude_btn = b /\ gui.current_plan # None]
    /\ UNCHANGED <<GuiFrame, storeVars, worker>>

\* the user presses Exclude Selected: _exclude_selected up to its question
ClickExclude ==
    /\ UserCanAct
    /\ gui.exclude_btn
    /\ gui' = IF ~gui.selected THEN gui ELSE Push(gui, Dialog("exclude", 0))
    /\ UNCHANGED <<GuiFrame, storeVars, worker>>

\* variant: a handler that does not look at the snapshot payload
ClickSyncWithoutPayloadTest ==
    /\ UserCanAct
    /\ gui.sync_btn
    /\ gui' = IF gui.current_plan = None THEN gui
              ELSE IF gui.current_plan[1].empty THEN Push(gui, Dialog("information", 0))
              ELSE IF SyncRunning(worker) THEN gui
              ELSE Push(gui, Dialog("confirm_sync", 0))
    /\ UNCHANGED <<GuiFrame, storeVars, worker>>

\* the user presses Sync Now: _sync_selected_modpack up to its question
ClickSync ==
    /\ UserCanAct
    /\ gui.sync_btn
    /\ gui' = IF gui.current_plan = None \/ ~gui.current_plan[1].payload THEN gui
              ELSE IF gui.current_plan[1].empty THEN Push(gui, Dialog("information", 0))
              ELSE IF SyncRunning(worker) THEN gui
              ELSE Push(gui, Dialog("confirm_sync", 0))
    /\ UNCHANGED <<GuiFrame, storeVars, worker>>

\* the user closes a message box that only informs
CloseInformation ==
    /\ UserCanAnswer
    /\ TopDialog.kind \in {"information", "sync_complete"}
    /\ gui' = IF TopDialog.kind = "sync_complete"
              THEN preview_selected_modpack(PopDialog(gui))
              ELSE PopDialog(gui)
    /\ UNCHANGED <<GuiFrame, storeVars, worker>>

\* the user answers the question of _sync_selected_modpack: on Yes the
\* buttons are disabled and a SyncWorker is made and started
AnswerSync(yes) ==
    /\ UserCanAnswer
    /\ TopDialog.kind = "confirm_sync"
    /\ IF yes
       THEN /\ gui' = [PopDialog(gui) EXCEPT !.preview_btn = FALSE, !.sync_btn = FALSE,
                                             !.exclude_btn = FALSE, !.refresh_btn = FALSE]
            /\ worker' = NewWorker(gui.current_plan[1].asks, 1 - worker.id)
       ELSE /\ gui' = PopDialog(gui)
            /\ UNCHANGED worker
    /\ UNCHANGED <<GuiFrame, storeVars>>

\* the user answers the question of _exclude_selected: on Yes the path is
\* excluded and a preview is started
AnswerExclude(yes) ==
    /\ UserCanAnswer
    /\ TopDialog.kind = "exclude"
    /\ IF yes
       THEN /\ LET r == add_exclusion(disk, cache, "m1", normalize_relative(PathA))
               IN disk' = r.disk /\ cache' = r.cache
            /\ gui' = preview_selected_modpack(PopDialog(gui))
       ELSE /\ gui' = PopDialog(gui)
            /\ UNCHANGED storeVars
    /\ UNCHANGED <<GuiFrame, worker>>

\* SyncWorker.set_confirmation_response, run by the GUI thread with the
\* mutex: the response is stored and wakeAll wakes a waiting worker
set_confirmation_response(w, key, response) ==
    [w EXCEPT !.responses = (key :> response) @@ @,
              !.pc = IF @ = "waiting" THEN "woken" ELSE @]

\* the user answers the question of _handle_confirm_update or
\* _handle_confirm_removal, and the handler hands the answer to the worker
AnswerConfirm(response) ==
    /\ UserCanAnswer
    /\ TopDialog.kind = "confirm_change"
    /\ worker.mutex = None
    /\ worker' = set_confirmation_response(worker, TopDialog.key, response)
    /\ gui' = PopDialog(gui)
    /\ UNCHANGED <<GuiFrame, storeVars>>

\* SyncWorker.confirm_update / confirm_removal, line by line: emit the signal
WorkerEmit ==
    /\ worker.pc = "running"
    /\ worker.asks > 0
    /\ worker' = [worker EXCEPT !.pc = "emitted", !.key = @ + 1]
    /\ gui' = [gui EXCEPT !.queue = Append(@, Signal("confirm", worker.key + 1))]
    /\ UNCHANGED <<GuiFrame, storeVars>>

\* self._mutex.lock()
WorkerLock ==
    /\ worker.pc = "emitted"
    /\ worker.mutex = None
    /\ worker' = [worker EXCEPT !.pc = "locked", !.mutex = Some("worker")]
    /\ UNCHANGED <<GuiFrame, storeVars, gui>>

\* self._wait_condition.wait(self._mutex): the mutex is released and the
\* thread sleeps until a wakeAll
WorkerWait ==
    /\ worker.pc = "locked"
    /\ worker' = [worker EXCEPT !.pc = "waiting", !.mutex = None]
    /\ UNCHANGED <<GuiFrame, storeVars, gui>>

\* woken, wait takes the mutex again and returns; the response is read,
\* the mutex released and the answer returned to execute_plan
WorkerResume ==
    /\ worker.pc = "woken"
    /\ worker.mutex = None
    /\ worker' = [worker EXCEPT
                     !.pc = "running",
                     !.asks = @ - 1,
                     !.got = (worker.key :> (IF worker.key \in DOMAIN worker.responses
                                             THEN worker.responses[worker.key]
                                             ELSE FALSE)) @@ @]
    /\ UNCHANGED <<GuiFrame, storeVars, gui>>

\* SyncWorker.run: execute_plan returns, or raises at some point; nothing
\* reads the fields of a worker that has ended
WorkerEnd(ok) ==
    /\ worker.pc = "running"
    /\ ok => worker.asks = 0
    /\ worker' = [NoWorker EXCEPT !.pc = "done", !.id = worker.id]
    /\ gui' = [gui EXCEPT !.queue =
                   Append(@, Signal(IF ok THEN "sync_finished" ELSE "sync_error", 0))]
    /\ UNCHANGED <<GuiFrame, storeVars>>

GuiNext ==
    \/ ClickPreview
    \/ PreviewWorkerRun
    \/ Deliver
    \/ \E b \in BOOLEAN : SelectItem(b)
    \/ ClickExclude
    \/ ClickSync
    \/ CloseInformation
    \/ \E yes \in BOOLEAN : AnswerSync(yes)
    \/ \E yes \in BOOLEAN : AnswerExclude(yes)
    \/ \E response \in BOOLEAN : AnswerConfirm(response)
    \/ WorkerEmit
    \/ WorkerLock
    \/ WorkerWait
    \/ WorkerResume
    \/ \E ok \in BOOLEAN : WorkerEnd(ok)

GuiSpec == GuiInit /\ [][GuiNext]_vars

\* ------------------------------------------------------------------- claims
\* the plan is as build_sync_plan returned it: no run has touched it
FreshPlan == pc = "idle" /\ planFor # None

\* the relative paths of the changes of a list
PathsOf(list) == {list[i].relative_path : i \in DOMAIN list}

\* the lists of the plan, among `lists`, that hold path p
ListsWith(p, lists) == {l \in lists : p \in PathsOf(plan[l])}

\* at build time: the path is recorded in the history and missing from the
\* source snapshot; the digest recorded for it; the target's digest
Orphan(p) == p \in DOMAIN built.history.files /\ p \notin DOMAIN built.source_snapshot
Recorded(p) == built.history.files[p].hash
InTarget(p) == p \in DOMAIN built.target_snapshot
TargetDigest(p) == built.target_snapshot[p].hash_digest
InSource(p) == p \in DOMAIN built.source_snapshot
SourceDigest(p) == built.source_snapshot[p].hash_digest

IsDriftUpdate(c, p) ==
    /\ c.relative_path = p
    /\ c.action = "update"
    /\ c.source_path = None
    /\ c.reason = Some("Target file changed since last sync")

\* C1: in a plan as returned by build_sync_plan every relative path is in at
\* most one of adds, updates and removals, and in that list once; a path that
\* is tracked and missing from the source is never both a drift update and a
\* removal.
C1_OneListPerPath ==
    FreshPlan =>
        \A p \in Paths :
            /\ Cardinality(ListsWith(p, {"adds", "updates", "removals"})) <= 1
            /\ \A l \in {"adds", "updates", "removals"} :
                   Cardinality({i \in DOMAIN plan[l] : plan[l][i].relative_path = p}) <= 1

C1_Witness ==
    /\ FreshPlan
    /\ \E p \in Paths :
          /\ Orphan(p)
          /\ \E i \in DOMAIN plan.updates : IsDriftUpdate(plan.updates[i], p)
    /\ plan.skipped # <<>>

\* C2 as stated: a path recorded with digest D, absent from the source
\* snapshot, whose target digest is not D, is a drift update and no removal.
C2_AsStated ==
    FreshPlan =>
        \A p \in Paths :
            (Orphan(p) /\ InTarget(p) /\ TargetDigest(p) # Recorded(p)) =>
                /\ \E i \in DOMAIN plan.updates : IsDriftUpdate(plan.updates[i], p)
                /\ p \notin PathsOf(plan.removals)

\* C2 amended: the same for a path recorded with a non-empty digest D; a path
\* recorded with the empty digest (its source could not be read when it was
\* recorded) and still in the target is a removal.
C2_DriftWins ==
    FreshPlan =>
        \A p \in Paths :
            (Orphan(p) /\ InTarget(p) /\ TargetDigest(p) # Recorded(p)) =>
                IF Recorded(p) # ""
                THEN /\ \E i \in DOMAIN plan.updates : IsDriftUpdate(plan.updates[i], p)
                     /\ p \notin PathsOf(plan.removals)
                ELSE /\ p \in PathsOf(plan.removals)
                     /\ p \notin PathsOf(plan.updates)

C2_Witness ==
    /\ FreshPlan
    /\ \E p \in Paths :
          /\ Orphan(p) /\ InTarget(p)
          /\ Recorded(p) # ""
          /\ TargetDigest(p) # Recorded(p)
          /\ \E i \in DOMAIN plan.updates : IsDriftUpdate(plan.updates[i], p)

\* C3: a path recorded in the history and absent from the source snapshot,
\* whose target digest equals the recorded digest, is a removal (and in no
\* other list) when the target file exists; when the target file is absent
\* no list of the plan holds a change for it.
C3_RemovalOrNothing ==
    FreshPlan =>
        \A p \in Paths :
            Orphan(p) =>
                /\ (InTarget(p) /\ TargetDigest(p) = Recorded(p)) =>
                       /\ \E i \in DOMAIN plan.removals :
                             /\ plan.removals[i].relative_path = p
                             /\ plan.removals[i].action = "delete"
                             /\ plan.removals[i].target_path = Some(TargetPath(p))
                       /\ ListsWith(p, {"adds", "updates", "skipped"}) = {}
                /\ (built.tgt[p] = Absent) =>
                       ListsWith(p, {"adds", "updates", "removals", "skipped"}) = {}

C3_Witness ==
    /\ FreshPlan
    /\ \E p \in Paths :
          /\ Orphan(p) /\ InTarget(p) /\ TargetDigest(p) = Recorded(p)
          /\ p \in PathsOf(plan.removals)
    /\ \E q \in Paths : Orphan(q) /\ built.tgt[q] = Absent

\* C4: a path in both snapshots with identical digests is in skipped and
\* neither in adds nor in updates.
C4_SameDigestSkipped ==
    FreshPlan =>
        \A p \in Paths :
            (InSource(p) /\ InTarget(p) /\ SourceDigest(p) = TargetDigest(p)) =>
                /\ \E i \in DOMAIN plan.skipped :
                      /\ plan.skipped[i].relative_path = p
                      /\ plan.skipped[i].action = "skip"
                /\ ListsWith(p, {"adds", "updates"}) = {}

C4_Witness ==
    /\ FreshPlan
    /\ \E p \in Paths :
          /\ InSource(p) /\ InTarget(p) /\ SourceDigest(p) = TargetDigest(p)
          /\ p \in PathsOf(plan.skipped)

\* C5: a path in the source snapshot and not in the target snapshot is in
\* adds, with source_path the source file and target_path the target root
\* joined with the relative path.
C5_SourceOnlyAdded ==
    FreshPlan =>
        \A p \in Paths :
            (InSource(p) /\ ~InTarget(p)) =>
                \E i \in DOMAIN plan.adds :
                    /\ plan.adds[i].relative_path = p
                    /\ plan.adds[i].action = "copy"
                    /\ plan.adds[i].source_path = Some(Join(SourceRoot(built.name), p))
                    /\ plan.adds[i].target_path = Some(Join(GamePath, p))

C5_Witness ==
    /\ FreshPlan
    /\ \E p \in Paths : InSource(p) /\ ~InTarget(p) /\ p \in PathsOf(plan.adds)
    /\ \E q \in Paths : InTarget(q)

\* C6: a path in both snapshots whose digests differ is in updates, with the
\* reason "Content differs", and in no other list.
C6_DifferentDigestUpdated ==
    FreshPlan =>
        \A p \in Paths :
            (InSource(p) /\ InTarget(p) /\ SourceDigest(p) # TargetDigest(p)) =>
                /\ \E i \in DOMAIN plan.updates :
                      /\ plan.updates[i].relative_path = p
                      /\ plan.updates[i].action = "update"
                      /\ plan.updates[i].reason = Some("Content differs")
                /\ \A i \in DOMAIN plan.updates :
                      plan.updates[i].relative_path = p =>
                          plan.updates[i].reason = Some("Content differs")
                /\ ListsWith(p, {"adds", "removals", "skipped"}) = {}

C6_Witness ==
    /\ FreshPlan
    /\ \E p \in Paths :
          /\ InSource(p) /\ InTarget(p) /\ SourceDigest(p) # TargetDigest(p)
          /\ p \in DOMAIN built.history.files
          /\ p \in PathsOf(plan.updates)

\* C7: a file of the source tree whose slash-normalized path is in the
\* exclusion set is no key of the source snapshot, whatever the file holds,
\* and is neither an add nor an update that has a source.
ExcludedAtBuild(p) == normalize_relative(p) \in Range(built.history.exclusions)

C7_ExcludedNotScanned ==
    FreshPlan =>
        \A p \in Paths :
            ExcludedAtBuild(p) =>
                /\ p \notin DOMAIN built.source_snapshot
                /\ p \notin PathsOf(plan.adds)
                /\ \A i \in DOMAIN plan.updates :
                      plan.updates[i].relative_path = p => plan.updates[i].source_path = None

C7_Witness ==
    /\ FreshPlan
    /\ \E p \in Paths :
          /\ ExcludedAtBuild(p)
          /\ normalize_relative(p) # p
          /\ built.src[p] # Absent
    /\ built.source_snapshot # EmptyDict

\* C8: the keys of the snapshot payload are exactly the files of the source
\* tree that are not excluded, each with the digest, the size and the
\* modification time of that file (size and time as str() writes them); a
\* path only in the target or only in the old history is no key.
C8_PayloadIsSourceSnapshot ==
    FreshPlan =>
        /\ DOMAIN payload = {p \in Paths : built.src[p] # Absent /\ ~ExcludedAtBuild(p)}
        /\ \A p \in DOMAIN payload :
              /\ payload[p].hash = hash_file(built.src[p])
              /\ ParseInt(payload[p].size) = StatSize(built.src[p])
              /\ IsWholeFloat(payload[p].mtime)
              /\ ParseFloat(payload[p].mtime) = StatMtime(built.src[p])

C8_Witness ==
    /\ FreshPlan
    /\ payload # EmptyDict
    /\ \E q \in Paths :
          /\ q \notin DOMAIN payload
          /\ q \in DOMAIN built.history.files
          /\ InTarget(q)

\* what the store answers for a name: get_history(name)
HistoryView(d, c) == [n \in Names |-> get_history(d, c, n)]

\* C9: a build_sync_plan call leaves the history document on disk as it was,
\* and the files, exclusions and last_synced the store returns for every name.
C9_BuildKeepsHistory ==
    [][(\E n \in Modpacks : BuildPlan(n)) =>
          /\ disk' = disk
          /\ HistoryView(disk', cache') = HistoryView(disk, cache)]_vars

C9_Witness ==
    /\ FreshPlan
    /\ disk # None
    /\ "m2" \in DOMAIN read_raw(disk)
    /\ built.history.files # EmptyDict
    /\ plan.skipped # <<>>

\* C10: execute_plan called while the target root does not exist raises at
\* once: no file of either tree, no directory and no backup changes, no
\* progress tick and no confirmation is issued, the history document and the
\* cache stay as they are; the raised call only returns to its caller.
C10_MissingTargetRaises ==
    [][/\ (~tgtRoot /\ pc = "idle" /\ pc' # "idle") =>
             /\ pc' = "raised"
             /\ run' = None
             /\ log' = <<>>
             /\ UNCHANGED <<src, tgt, tgtDirs, tgtRoot, backups, disk, cache>>
       /\ (~tgtRoot /\ pc # "idle") =>
             /\ pc = "raised"
             /\ pc' = "idle"
             /\ UNCHANGED <<src, tgt, tgtDirs, tgtRoot, backups, disk, cache>>]_vars

C10_Witness ==
    /\ pc = "raised"
    /\ ~tgtRoot
    /\ run = None
    /\ plan.adds # <<>>
    /\ disk # None

\* ----------------------------------------------------- claims on execute_plan
\* execute_plan is between its first loop and its return
Running == pc \in {"adds", "updates", "removals", "prune"}

\* what a step adds to the log
NewEvents == SubSeq(log', Len(log) + 1, Len(log'))

\* the update pass of the run has, or will have, an item to process, and its
\* removal pass a destination that exists: what UpdatePassWorks and
\* RemovalPassWorks say at the start, for the items the run has not yet passed
UpdateFlagRead ==
    \/ plan.updates # <<>>
    \/ /\ pc = "adds"
       /\ \E i \in run.i..Len(plan.adds) : tgt[DestRel(plan.adds[i])] # Absent
RemovalFlagRead ==
    \E i \in DOMAIN plan.removals :
        /\ pc = "removals" => i >= run.i
        /\ tgt[DestRel(plan.removals[i])] # Absent

\* the run's auto-confirm flags are off.  A run whose pass has nothing to ask
\* about reads no flag and carries TRUE for both values of it
UpdatesAsked == run.auto_confirm_updates => ~UpdateFlagRead
RemovalsAsked == run.auto_confirm_removals => ~RemovalFlagRead

\* no callback of the step answers yes
NoConsent ==
    \A i \in DOMAIN NewEvents :
        NewEvents[i].ev \in {"confirm_update", "confirm_removal"} =>
            NewEvents[i].info = <<FALSE>>

\* the history on disk and the one the store returns hold the payload of the
\* run and the time of the run
Persisted(d, c) ==
    /\ d # None
    /\ run.name \in DOMAIN read_raw(d)
    /\ read_raw(d)[run.name].files = payload
    /\ read_raw(d)[run.name].last_synced = Some(now)
    /\ get_history(d, c, run.name).files = payload
    /\ get_history(d, c, run.name).last_synced = Some(now)

\* C11 as stated: in a run with both flags off whose callbacks answer no, no
\* step creates, changes or deletes a file of the target tree, the run does
\* not raise, and it returns with the payload persisted.
C11_AsStated ==
    [][(Running /\ UpdatesAsked /\ RemovalsAsked /\ NoConsent) =>
          /\ tgt' = tgt
          /\ pc' # "raised"
          /\ (pc' = "done" => Persisted(disk', cache'))]_vars

\* C11 amended: the same for a plan that holds no adds (an add is copied
\* without any confirmation).
C11_DeclinedRunKeepsTarget ==
    [][(Running /\ plan.adds = <<>> /\ UpdatesAsked /\ RemovalsAsked /\ NoConsent) =>
          /\ tgt' = tgt
          /\ pc' # "raised"
          /\ (pc' = "done" => Persisted(disk', cache'))]_vars

\* a run that was refused an update and a removal is done
C11_Witness ==
    /\ pc = "done"
    /\ plan.adds = <<>>
    /\ ~run.auto_confirm_updates /\ ~run.auto_confirm_removals
    /\ \E i \in DOMAIN log : log[i].ev = "confirm_update" /\ log[i].info = <<FALSE>>
    /\ \E i \in DOMAIN log : log[i].ev = "confirm_removal" /\ log[i].info = <<FALSE>>
    /\ Persisted(disk, cache)

\* the step writes over the file at p, or deletes it
CopiesOver(p, i) == NewEvents[i].ev = "copy" /\ NewEvents[i].path = p
Overwrites(p) ==
    /\ tgt[p] # Absent
    /\ \/ tgt'[p] \notin {tgt[p], Absent}
       \/ \E i \in DOMAIN NewEvents : CopiesOver(p, i)
Removes(p, i) == NewEvents[i].ev = "remove" /\ NewEvents[i].path = p
Deletes(p) ==
    /\ tgt[p] # Absent
    /\ \/ tgt'[p] = Absent
       \/ \E i \in DOMAIN NewEvents : Removes(p, i)

\* the callback `kind` is called for p in the step, before the event at
\* position i of the step, and answers yes
ConsentBefore(kind, p, i) ==
    \E j \in 1..(i - 1) :
        /\ NewEvents[j].ev = kind
        /\ NewEvents[j].path = p
        /\ NewEvents[j].info = <<TRUE>>

\* C12: in a run with auto-confirm-updates off a step writes over an existing
\* target file only after confirm_update was called for that change and
\* answered yes; with auto-confirm-removals off a step deletes a target file
\* only after confirm_removal answered yes; a callback that is not given
\* gives no consent.
C12_NoChangeWithoutConsent ==
    [][Running =>
          \A p \in Paths :
              /\ (UpdatesAsked /\ Overwrites(p)) =>
                     /\ run.confirm_update
                     /\ \E i \in DOMAIN NewEvents :
                           CopiesOver(p, i) /\ ConsentBefore("confirm_update", p, i)
              /\ (RemovalsAsked /\ Deletes(p)) =>
                     /\ run.confirm_removal
                     /\ \E i \in DOMAIN NewEvents :
                           Removes(p, i) /\ ConsentBefore("confirm_removal", p, i)]_vars

\* a run was refused one change for want of a callback, and has done another
\* one that its callback agreed to
C12_Witness ==
    /\ pc = "done"
    /\ \/ /\ ~run.auto_confirm_updates /\ ~run.confirm_update
          /\ ~run.auto_confirm_removals /\ run.confirm_removal
          /\ \E i \in DOMAIN log : log[i].ev = "remove"
          /\ \E i \in DOMAIN log : log[i].ev = "progress" /\ log[i].info[1] = "Skipped"
       \/ /\ ~run.auto_confirm_updates /\ run.confirm_update
          /\ ~run.auto_confirm_removals /\ ~run.confirm_removal
          /\ \E i \in DOMAIN log : log[i].ev = "copy"
          /\ \E i \in DOMAIN log : log[i].ev = "progress" /\ log[i].info[1] = "Kept"

\* the run ticked p with the message text: "Skipped" for a refused update,
\* "Kept" for a refused removal
Ticked(text, p) ==
    \E i \in DOMAIN log :
        /\ log[i].ev = "progress"
        /\ log[i].path = p
        /\ log[i].info[1] = text

\* C13 as stated: when execute_plan has returned, a change whose confirmation
\* was refused is in skipped, and is no longer in updates (a refused update)
\* or in removals (a refused removal).
C13_AsStated ==
    pc = "done" =>
        \A p \in Paths :
            /\ Ticked("Skipped", p) =>
                   p \in PathsOf(plan.skipped) /\ p \notin PathsOf(plan.updates)
            /\ Ticked("Kept", p) =>
                   p \in PathsOf(plan.skipped) /\ p \notin PathsOf(plan.removals)

\* C14: once the removals loop of execute_plan has ended, whatever was
\* refused or passed over, the history of the modpack holds the payload of
\* the run as files, on disk and in the store, with the time of the run as
\* last_synced.
C14_SnapshotPersisted ==
    pc \in {"prune", "done"} =>
        /\ Persisted(disk, cache)
        /\ DOMAIN read_raw(disk)[run.name].files = DOMAIN payload

\* a second run, with one item refused, has replaced the files and the time
\* the first run recorded
C14_Witness ==
    /\ pc = "done"
    /\ now = 2
    /\ Persisted(disk, cache)
    /\ payload # EmptyDict
    /\ payload # built.history.files
    /\ built.history.last_synced = Some(1)
    /\ \E p \in Paths : Ticked("Skipped", p) \/ Ticked("Kept", p)

\* C15 as stated: a file operation that fails on one item does not end the
\* run: execute_plan raises only for a missing target root, before its loops.
C15_AsStated == pc = "raised" => ~tgtRoot

\* create_backup is called for p in the step, before the event at position i
BackupBefore(p, i) ==
    \E j \in 1..(i - 1) :
        /\ NewEvents[j].ev = "backup"
        /\ NewEvents[j].path = p
        /\ NewEvents[j].info = <<now>>

\* C16: in a run with a backup root, a step that writes over an existing
\* target file or deletes one calls create_backup for that file first; a
\* file that can be read is then found under the backup root, in the
\* directory of the run's timestamp, under its base name.
C16_BackupFirst ==
    [][(Running /\ run.backup_root) =>
          \A p \in Paths :
              /\ Overwrites(p) =>
                     \E i \in DOMAIN NewEvents : CopiesOver(p, i) /\ BackupBefore(p, i)
              /\ Deletes(p) =>
                     \E i \in DOMAIN NewEvents : Removes(p, i) /\ BackupBefore(p, i)
              /\ ((Overwrites(p) \/ Deletes(p)) /\ tgt[p] # "u") =>
                     /\ <<now, BaseName(p)>> \in DOMAIN backups'
                     /\ backups'[<<now, BaseName(p)>>] = tgt[p]]_vars

\* a run with a backup root has written over one file and deleted another,
\* one of them in a directory, and their backups are there
C16_Witness ==
    /\ pc = "done"
    /\ run.backup_root
    /\ \E i \in DOMAIN log : log[i].ev = "backup" /\ log[i].path = PathDA
    /\ \E i \in DOMAIN log : log[i].ev = "copy" /\ i > 1 /\ log[i - 1].ev = "backup"
    /\ \E i \in DOMAIN log : log[i].ev = "remove" /\ i > 1 /\ log[i - 1].ev = "backup"
    /\ <<now, BaseName(PathDA)>> \in DOMAIN backups

\* the step calls create_backup for p and the copy into the backup root fails
BackupFails(p) ==
    /\ tgt[p] = "u"
    /\ \E j \in DOMAIN NewEvents : NewEvents[j].ev = "backup" /\ NewEvents[j].path = p

C18_AsStated ==
    pc = "done" =>
        /\ run.processed = run.total_items
        /\ run.total_items > 0 =>
               \E i \in DOMAIN log :
                   /\ log[i].ev = "progress"
                   /\ log[i].info[2] = run.total_items
                   /\ log[i].info[3] = run.total_items
                   /\ \A j \in (i + 1)..Len(log) : log[j].ev # "progress"

\* ------------------------------------------------ claims on SyncHistoryStore
\* call m saved a history under name n: a save_history, or an exclusion call
\* that changed the list
Saves(m, n) ==
    /\ log[m].name = n
    /\ \/ log[m].ev = "save_history"
       \/ log[m].ev \in {"add_exclusion", "remove_exclusion"} /\ log[m].saved

\* in the calls made to the store: call i saves a history under a name, a
\* later call j makes a new store whose first call is a get_history (so that
\* load_all reads the document), call k of that store gets the history of
\* the saved name, and no call between i and k saves that name again
SavedAndReloaded(i, j, k) ==
    /\ i < j /\ j < k
    /\ log[i].ev = "save_history"
    /\ log[j].ev = "reopen"
    /\ log[j + 1].ev = "get_history"
    /\ \A m \in (j + 1)..k : log[m].ev # "reopen"
    /\ log[k].ev = "get_history"
    /\ log[k].name = log[i].name
    /\ \A m \in (i + 1)..(k - 1) : ~Saves(m, log[i].name)

\* C19: a history saved with save_history and got with get_history from a
\* store that has read the file anew has the files, the exclusions and the
\* last_synced that were saved.
C19_RoundTrip ==
    \A i \in DOMAIN log, j \in DOMAIN log, k \in DOMAIN log :
        SavedAndReloaded(i, j, k) =>
            /\ log[k].history.files = log[i].history.files
            /\ log[k].history.exclusions = log[i].history.exclusions
            /\ log[k].history.last_synced = log[i].history.last_synced

\* a history with files and a time was saved over a file that held another
\* history, and a new store has returned it
C19_Witness ==
    \E i \in DOMAIN log, j \in DOMAIN log, k \in DOMAIN log :
        /\ SavedAndReloaded(i, j, k)
        /\ log[i].history.last_synced = Some(1)
        /\ log[i].history.files # EmptyDict
        /\ log[k].history = log[i].history
        /\ DOMAIN read_raw(disk) = Names

\* C20 as stated: whatever the history file holds, no get_history and no
\* save_history raises, and while the file holds no object of histories
\* get_history returns an empty history.
C20_AsStated ==
    \A i \in DOMAIN log :
        /\ log[i].ev \notin {"get_history raises", "save_history raises"}
        /\ (Len(disk) # 1 /\ log[i].ev = "get_history") =>
               log[i].history = FreshHistory

\* ------------------------------------------- claims on the exclusion calls
NoDuplicates(s) == \A i \in DOMAIN s, j \in DOMAIN s : s[i] = s[j] => i = j

\* the step is a call of kind ev that returned
StepIs(ev) ==
    /\ Len(log') = Len(log) + 1
    /\ log'[Len(log')].ev = ev

\* the call just made, the one made before it, and the history that its
\* name had when the call was made
LastCall == log'[Len(log')]
CallBefore == log[Len(log)]
HistoryBefore == get_history(disk, cache, LastCall.name)

\* the call just made repeats the call before it
Repeats ==
    /\ log # <<>>
    /\ CallBefore.ev = LastCall.ev
    /\ CallBefore.name = LastCall.name
    /\ CallBefore.path = LastCall.path

\* C21: add_exclusion of a path that is excluded and remove_exclusion of one
\* that is not leave the history and the document as they are and do not
\* save; after add_exclusion the path is in the list once, after
\* remove_exclusion it is not in it, and the list holds no path twice; a call
\* that repeats the call before it leaves what that call left.
C21_Idempotent ==
    [][/\ StepIs("add_exclusion") =>
            /\ InSeq(LastCall.path, HistoryBefore.exclusions) =>
                   /\ ~LastCall.saved
                   /\ disk' = disk
                   /\ LastCall.history = HistoryBefore
            /\ InSeq(LastCall.path, LastCall.history.exclusions)
            /\ NoDuplicates(LastCall.history.exclusions)
            /\ Repeats => ~LastCall.saved /\ LastCall.history = CallBefore.history
       /\ StepIs("remove_exclusion") =>
            /\ ~InSeq(LastCall.path, HistoryBefore.exclusions) =>
                   /\ ~LastCall.saved
                   /\ disk' = disk
                   /\ LastCall.history = HistoryBefore
            /\ ~InSeq(LastCall.path, LastCall.history.exclusions)
            /\ NoDuplicates(LastCall.history.exclusions)
            /\ Repeats => ~LastCall.saved /\ LastCall.history = CallBefore.history
      ]_vars

\* a path was added and added again, then removed and removed again: the
\* second call of each pair did not save
C21_Witness ==
    /\ Len(log) = 4
    /\ log[1].ev = "add_exclusion" /\ log[1].saved
    /\ log[2].ev = "add_exclusion" /\ ~log[2].saved
    /\ log[3].ev = "remove_exclusion" /\ log[3].saved
    /\ log[4].ev = "remove_exclusion" /\ ~log[4].saved
    /\ \A i \in 2..4 : log[i].name = log[1].name /\ log[i].path = log[1].path
    /\ log[2].history.exclusions # <<>>
    /\ log[4].history.exclusions = log[3].history.exclusions

\* --------------------------------------- claims on threads sharing the store
\* the record of name n in the document d, None when it holds none
RecordOf(d, n) == IF n \in DOMAIN read_raw(d) THEN Some(read_raw(d)[n]) ELSE None

\* the step writes the document
Writes == Len(log') = Len(log) + 1 /\ log'[Len(log')].ev = "write"

\* C22: whenever a save_history writes the document, whatever the other thread
\* is doing, the document then holds the record being saved under its name
\* and, under every other name, the record it held before.
C22_SaveKeepsOthers ==
    [][Writes =>
          \A n \in Names :
              IF n = log'[Len(log')].name
              THEN RecordOf(disk', n) = Some(log'[Len(log')].history)
              ELSE RecordOf(disk', n) = RecordOf(disk, n)]_vars

\* two threads have saved different histories under different names and have
\* returned; the document holds both
C22_Witness ==
    /\ \A t \in Threads : thr[t].pc = "returned" /\ thr[t].op = "save_history"
    /\ thr["t1"].name # thr["t2"].name
    /\ Len(log) = 2
    /\ \A i \in DOMAIN log : RecordOf(disk, log[i].name) = Some(log[i].history)
    /\ log[1].history # log[2].history

\* C23 as stated: when both threads have returned from add_exclusion of the
\* same name with different paths, the cached and the persisted exclusions of
\* the name contain both paths.
C23_AsStated ==
    (/\ \A t \in Threads : thr[t].pc = "returned" /\ thr[t].op = "add_exclusion"
     /\ thr["t1"].name = thr["t2"].name
     /\ thr["t1"].path # thr["t2"].path)
    => \A t \in Threads :
           /\ InSeq(thr[t].path, heap[cache[thr[t].name]].exclusions)
           /\ RecordOf(disk, thr[t].name) # None
           /\ InSeq(thr[t].path, RecordOf(disk, thr[t].name)[1].exclusions)

\* ------------------------------------------------------ claims on the window
\* the worker's current request has been answered by the GUI thread
Answered == worker.key \in DOMAIN worker.responses

\* C24 as stated: once the GUI thread has stored the answer to the worker's
\* request the worker is not left asleep in wait, also when the answer was
\* stored before it waited, and every answer it has returned to execute_plan
\* is the answer stored for that request.
C24_AsStated ==
    /\ ~(worker.pc = "waiting" /\ Answered)
    /\ \A k \in DOMAIN worker.got :
           k \in DOMAIN worker.responses /\ worker.got[k] = worker.responses[k]

\* the exclusions of m1 that the store holds
ExclusionsOf(c) == IF "m1" \in DOMAIN c THEN c["m1"].exclusions ELSE <<>>

StartsPreview == gui.preview_worker # "running" /\ gui'.preview_worker = "running"
StartsSync == worker'.id # worker.id
ChangesExclusions == ExclusionsOf(cache') # ExclusionsOf(cache)

\* C25 as stated: while a SyncWorker is executing a plan, no step of the
\* window starts a PreviewWorker or a second SyncWorker or changes the
\* exclusions of the modpack.
C25_AsStated ==
    [][SyncRunning(worker) => ~StartsPreview /\ ~StartsSync /\ ~ChangesExclusions]_vars

\* ------------------------------------------------- claims on build and run
\* execute_plan has ended, by return or by exception, in a run on the plan
\* as built: nothing was edited between the build and now, the target
\* directory is there, and updates and removals are auto-confirmed
BuiltThenExecuted ==
    /\ pc \in {"done", "raised"}
    /\ run # None
    /\ built.edits = edits
    /\ run.auto_confirm_updates /\ run.auto_confirm_removals

\* the digest that the persisted history of the run's modpack records for p
RecordedDigest(p) ==
    IF /\ RecordOf(disk, run.name) # None
       /\ p \in DOMAIN RecordOf(disk, run.name)[1].files
    THEN Some(RecordOf(disk, run.name)[1].files[p].hash)
    ELSE None

\* p is a file of the modpack that is not excluded
SyncedSource(p) == src[run.name][p] # Absent /\ ~ExcludedAtBuild(p)

\* C26 as stated: after a plan is built and executed with updates and
\* removals auto-confirmed and nothing else touching the trees, every source
\* file that is not excluded is in the target with the same content and the
\* persisted history records its digest.
C26_AsStated ==
    BuiltThenExecuted =>
        \A p \in Paths :
            SyncedSource(p) =>
                /\ tgt[p] = src[run.name][p]
                /\ RecordedDigest(p) = Some(hash_file(src[run.name][p]))

\* at build time the source file and the target file at p both hash to the
\* empty digest: neither can be read
BothDigestsEmpty(p) ==
    /\ InSource(p) /\ InTarget(p)
    /\ SourceDigest(p) = hash_file("u")
    /\ TargetDigest(p) = hash_file("u")

\* C27 as stated: a path whose source file and target file both hash to the
\* empty digest is not in skipped in the plan that build_sync_plan returns.
C27_AsStated ==
    FreshPlan =>
        \A p \in Paths : BothDigestsEmpty(p) => p \notin PathsOf(plan.skipped)

\* where a plan puts each path: for each list, the paths in it with their
\* action and reason
Entries(list) ==
    {<<list[i].relative_path, list[i].action, list[i].reason>> : i \in DOMAIN list}
Classification(pl) ==
    [adds |-> Entries(pl.adds), updates |-> Entries(pl.updates),
     removals |-> Entries(pl.removals), skipped |-> Entries(pl.skipped)]

\* C28: while the trees and the history are as the last build found them, a
\* second build_sync_plan, in whatever order it walks the source snapshot
\* and the remaining history, puts every path in the list where the plan of
\* the first has it, with the same action and reason.
C28_Deterministic ==
    (FreshPlan /\ built.edits = edits) =>
        \A o1 \in Orders(Paths), o2 \in Orders(Paths) :
            Classification(build_sync_plan(planFor[1], o1, o2).plan)
                = Classification(plan)

\* a plan that adds d\a and updates a, and a second build that walks a
\* first and classifies both alike
C28_Witness ==
    /\ FreshPlan /\ built.edits = edits
    /\ plan.adds # <<>> /\ plan.updates # <<>>
    /\ plan.adds[1].relative_path = PathDA
    /\ plan.updates[1].relative_path = PathA
    /\ \E o1 \in Orders(Paths), o2 \in Orders(Paths) :
          /\ o1[1] = PathA
          /\ build_sync_plan(planFor[1], o1, o2).plan.adds = plan.adds
          /\ build_sync_plan(planFor[1], o1, o2).plan.updates = plan.updates

\* the adds of the plan that the adds loop of the run found at their
\* destination and moved to the updates (lines 92-96)
Reclassified == {i \in DOMAIN plan.adds : plan.adds[i].action = "update"}

\* the update loop of the run has taken up the change of path p, which the
\* adds loop passed over: it asked for the confirmation, called copy_file
\* for it, or found its source gone and ticked (lines 105-124)
UpdatePassProcessed(p) ==
    \/ Ticked("Updated", p) \/ Ticked("Skipped", p)
    \/ \E i \in DOMAIN log :
           /\ log[i].ev \in {"confirm_update", "copy"}
           /\ log[i].path = p

\* C29 as stated: when a run of execute_plan has ended, every add it found at
\* its destination and reclassified has been processed by the update loop of
\* that run.
C29_AsStated ==
    (pc \in {"done", "raised"} /\ run # None) =>
        \A i \in Reclassified :
            UpdatePassProcessed(plan.adds[i].relative_path)

\* the adds loop of the run skipped an add whose source file is missing
\* (lines 98-100)
SourceMissingSkipped ==
    \E i \in DOMAIN log :
        /\ log[i].ev = "log"
        /\ log[i].info = <<"Source missing">>

\* C30 as stated: a run that skipped an add for its missing source does not
\* end with an error: it goes through the rest of the plan and persists the
\* history.
C30_AsStated == SourceMissingSkipped => pc # "raised"

\* the update loop is at a change that has no source file and goes on to
\* line 117: the flag is set, or confirm_update answers yes in the step
DriftOnlyUpdate ==
    /\ pc = "updates"
    /\ SourceFile(run.updates[run.i]) = Absent
    /\ \/ run.auto_confirm_updates
       \/ \E i \in DOMAIN NewEvents :
             /\ NewEvents[i].ev = "confirm_update"
             /\ NewEvents[i].info = <<TRUE>>

\* the progress reports of the step
NewTicks == {i \in DOMAIN NewEvents : NewEvents[i].ev = "progress"}

\* C31: an update step on a change without a source file that is confirmed,
\* or needs no confirmation, leaves every target file, the directories and
\* the backups as they are, calls neither copy_file nor create_backup, and
\* ticks once: processed grows by one and one progress report is issued.
C31_DriftOnlyTicks ==
    [][DriftOnlyUpdate =>
          /\ tgt' = tgt /\ tgtDirs' = tgtDirs /\ backups' = backups
          /\ \A i \in DOMAIN NewEvents : NewEvents[i].ev \notin {"copy", "backup"}
          /\ pc' # "raised"
          /\ run'.processed = run.processed + 1
          /\ \E i \in NewTicks :
                /\ NewTicks = {i}
                /\ NewEvents[i].path = run.updates[run.i].relative_path
                /\ NewEvents[i].info[2] = run.processed + 1]_vars

\* a run with a backup root is done that reported the drift of a file the
\* target still holds, after a yes of confirm_update, and ticked for it
C31_Witness ==
    /\ pc = "done"
    /\ run.backup_root /\ ~run.auto_confirm_updates
    /\ \E i \in DOMAIN log :
          /\ log[i].ev = "log"
          /\ log[i].info = <<"Target changed externally">>
          /\ tgt[log[i].path] # Absent
          /\ i > 1 /\ log[i - 1].ev = "confirm_update"
          /\ log[i - 1].info = <<TRUE>>
          /\ log[i + 1].ev = "progress"
          /\ log[i + 1].info[1] = "Updated"
    /\ \A i \in DOMAIN log : log[i].ev \notin {"copy", "backup"}

\* the run has a message of the adds loop for p: the copy, or the skip for a
\* missing source
AddLogged(p) ==
    \E i \in DOMAIN log :
        /\ log[i].ev = "log"
        /\ log[i].path = p
        /\ log[i].info \in {<<"Copied">>, <<"Source missing">>}

\* the loop an event of the run comes from: 1 adds, 2 updates, 3 removals,
\* 0 for a call that two loops make (copy_file, create_backup)
LoopOf(e) ==
    IF e.ev = "confirm_update" THEN 2
    ELSE IF e.ev \in {"confirm_removal", "remove"} THEN 3
    ELSE IF e.ev \notin {"log", "progress"} THEN 0
    ELSE IF e.info[1] \in {"Copied", "Source missing"} THEN 1
    ELSE IF e.info[1] \in {"Updated", "Skipped", "Skipped update",
                           "Target changed externally"} THEN 2
    ELSE 3

\* the passes of the run so far are in order: the events of the log are
\* sorted by loop; once the update loop is entered every add has been copied,
\* skipped or moved to the updates; once the removal loop is entered every
\* update has been ticked; once the history is persisted every removal has
\* been carried out or kept
PassesInOrder ==
    /\ \A i \in DOMAIN log, j \in DOMAIN log :
          (i < j /\ LoopOf(log[i]) # 0 /\ LoopOf(log[j]) # 0) =>
              LoopOf(log[i]) <= LoopOf(log[j])
    /\ pc \in {"updates", "removals", "prune", "done"} =>
          \A i \in DOMAIN plan.adds :
              i \in Reclassified \/ AddLogged(plan.adds[i].relative_path)
    /\ pc \in {"removals", "prune", "done"} =>
          \A i \in DOMAIN run.updates :
              UpdatePassProcessed(run.updates[i].relative_path)
    /\ pc \in {"prune", "done"} =>
          /\ \A i \in DOMAIN plan.removals :
                \/ tgt[DestRel(plan.removals[i])] = Absent
                \/ Ticked("Kept", plan.removals[i].relative_path)
          /\ Persisted(disk, cache)

\* C32: in every step of a run the passes stay in order; the history changes
\* only in the step that ends the removal loop, which goes on to the
\* pruning; a directory is removed only by the pruning, after that step;
\* nothing is processed or persisted after it; and a step that raises leaves
\* the history as it is and is never a step after the persisting.
C32_FixedOrder ==
    [][Running =>
          /\ PassesInOrder'
          /\ (disk' # disk \/ cache' # cache) =>
                 /\ pc = "removals" /\ run.i > Len(plan.removals)
                 /\ pc' = "prune"
                 /\ log' = log /\ tgt' = tgt /\ tgtDirs' = tgtDirs
          /\ (tgtDirs \ tgtDirs' # {}) => pc = "prune"
          /\ pc = "prune" => (log' = log /\ tgt' = tgt /\ pc' = "done")
          /\ pc' = "raised" =>
                 /\ disk' = disk /\ cache' = cache
                 /\ pc \in {"adds", "updates", "removals"}
                 /\ pc = "removals" => run.i <= Len(plan.removals)]_vars

\* a run is done that copied an add, then removed a file, then persisted
C32_Witness ==
    /\ pc = "done"
    /\ \E i \in DOMAIN log, j \in DOMAIN log :
          /\ i < j
          /\ log[i].ev = "log" /\ log[i].info = <<"Copied">>
          /\ log[j].ev = "remove"
    /\ Persisted(disk, cache)

\* the progress reports of the run so far, in the order they were issued
IsProgress(e) == e.ev = "progress"
ProgressReports == SelectSeq(log, IsProgress)

\* C33: the progress reports of a run count 1, 2, 3, ...: the k-th report
\* carries current = k and the total computed at the start, current never
\* exceeds the total, and the counter of the run is the number of reports;
\* also in a run that moved adds to the updates.
C33_CounterWellFormed ==
    (pc \in {"adds", "updates", "removals", "prune", "done"}) =>
        /\ run.processed = Len(ProgressReports)
        /\ run.processed <= run.total_items
        /\ \A k \in DOMAIN ProgressReports :
              /\ ProgressReports[k].info[2] = k
              /\ ProgressReports[k].info[3] = run.total_items
              /\ k <= run.total_items

\* a run is done that moved an add to the updates, ticked for it there and
\* reached its total of two
C33_Witness ==
    /\ pc = "done"
    /\ Reclassified # {}
    /\ run.total_items = 2
    /\ Len(ProgressReports) = 2
    /\ ProgressReports[2].info[2] = 2
    /\ \E i \in Reclassified :
          \E k \in DOMAIN ProgressReports :
              /\ ProgressReports[k].path = plan.adds[i].relative_path
              /\ ProgressReports[k].info[1] \in {"Updated", "Skipped"}

\* C34: when execute_plan has returned from a run on a plan as built, with
\* nothing edited since the build and updates and removals auto-confirmed,
\* build_sync_plan for the same modpack, in whatever order it walks, gives a
\* plan with is_empty() true.
C34_Converges ==
    (pc = "done" /\ BuiltThenExecuted) =>
        \A o1 \in Orders(Paths), o2 \in Orders(Paths) :
            is_empty(build_sync_plan(run.name, o1, o2).plan)

\* such a run is done that had a drift to report and left the file in the
\* target, and the plan built next is empty
C34_Witness ==
    /\ pc = "done" /\ BuiltThenExecuted
    /\ \E i \in DOMAIN log :
          /\ log[i].ev = "log"
          /\ log[i].info = <<"Target changed externally">>
          /\ tgt[log[i].path] # Absent
    /\ \E o1 \in Orders(Paths), o2 \in Orders(Paths) :
          build_sync_plan(run.name, o1, o2).plan = EmptyPlan

\* p was recorded in the history the plan was built from and is not in the
\* source snapshot of the plan: the build gave it a removal, a drift update,
\* or nothing
DroppedFromSource(p) ==
    /\ p \in DOMAIN built.history.files
    /\ p \notin DOMAIN built.source_snapshot

\* the run was refused the removal of p, or reported p as changed
KeptOrReported(p) ==
    \/ Ticked("Kept", p)
    \/ \E i \in DOMAIN log :
          /\ log[i].ev = "log"
          /\ log[i].path = p
          /\ log[i].info = <<"Target changed externally">>

\* C35: when execute_plan has returned, a path that the history recorded and
\* the source snapshot of the plan lacks is recorded no longer, whatever
\* became of its removal or drift update; the plan built next holds no
\* removal and no drift update for it; and the file of a refused removal or
\* a reported drift is still in the target.
C35_DroppedFromHistory ==
    pc = "done" =>
        \A p \in Paths :
            DroppedFromSource(p) =>
                /\ RecordedDigest(p) = None
                /\ p \notin DOMAIN get_history(disk, cache, run.name).files
                /\ \A o1 \in Orders(Paths), o2 \in Orders(Paths) :
                      LET pl == build_sync_plan(run.name, o1, o2).plan
                      IN /\ p \notin PathsOf(pl.removals)
                         /\ \A i \in DOMAIN pl.updates :
                               pl.updates[i].relative_path = p =>
                                   pl.updates[i].source_path # None
                /\ KeptOrReported(p) => tgt[p] # Absent

\* a run is done that was refused a removal: the file is in the target, the
\* history does not record it, and the plan built next is empty
C35_Witness ==
    /\ pc = "done"
    /\ \E p \in Paths :
          /\ DroppedFromSource(p)
          /\ Ticked("Kept", p)
          /\ tgt[p] # Absent
          /\ RecordedDigest(p) = None
    /\ \E o1 \in Orders(Paths), o2 \in Orders(Paths) :
          is_empty(build_sync_plan(run.name, o1, o2).plan)

\* at build time p is a file of the modpack that the exclusion set holds, the
\* history records it and the target has it
ExcludedButSynced(p) ==
    /\ ExcludedAtBuild(p)
    /\ built.src[p] # Absent
    /\ p \in DOMAIN built.history.files
    /\ built.tgt[p] # Absent /\ built.tgtRoot

\* the plan holds for p a removal and nothing else, or a drift update and
\* nothing else
OnlyRemoval(p) ==
    /\ \E i \in DOMAIN plan.removals :
          /\ plan.removals[i].relative_path = p
          /\ plan.removals[i].action = "delete"
    /\ ListsWith(p, {"adds", "updates", "skipped"}) = {}
OnlyDriftUpdate(p) ==
    /\ \E i \in DOMAIN plan.updates : IsDriftUpdate(plan.updates[i], p)
    /\ ListsWith(p, {"adds", "removals", "skipped"}) = {}

\* C36 as stated: an excluded path that the history records and the target
\* still has is a removal when the target digest equals the recorded one and
\* a drift update when it differs.
C36_AsStated ==
    FreshPlan =>
        \A p \in Paths :
            ExcludedButSynced(p) =>
                IF TargetDigest(p) = Recorded(p)
                THEN OnlyRemoval(p) ELSE OnlyDriftUpdate(p)

\* C36 amended: such a path is a drift update when the recorded digest is
\* not empty and the target digest differs from it, and a removal otherwise:
\* when the digests are equal, and when the recorded digest is empty (the
\* source could not be read when it was recorded).
C36_ExcludedNotShielded ==
    FreshPlan =>
        \A p \in Paths :
            ExcludedButSynced(p) =>
                /\ Orphan(p) /\ InTarget(p)
                /\ IF Recorded(p) # "" /\ TargetDigest(p) # Recorded(p)
                   THEN OnlyDriftUpdate(p) ELSE OnlyRemoval(p)

\* a plan that removes the target's copy of an excluded file of the modpack
C36_Witness ==
    /\ FreshPlan
    /\ \E p \in Paths :
          /\ ExcludedButSynced(p)
          /\ Recorded(p) # ""
          /\ TargetDigest(p) = Recorded(p)
          /\ OnlyRemoval(p)

\* the destination paths of the changes in the adds, updates and removals of
\* the plan
Destinations ==
    {DestRel(plan.adds[i]) : i \in DOMAIN plan.adds}
        \cup {DestRel(plan.updates[i]) : i \in DOMAIN plan.updates}
        \cup {DestRel(plan.removals[i]) : i \in DOMAIN plan.removals}

\* C37: no step of execute_plan, from its call to its return, creates,
\* changes or deletes a file of a modpack, and a target file that a step
\* creates, changes or deletes is the destination of a change in the adds,
\* updates or removals of the plan; every other target file is left as it is.
C37_WritesOnlyPlanned ==
    [][(Running \/ (pc = "idle" /\ pc' # "idle")) =>
          /\ src' = src
          /\ \A p \in Paths : tgt'[p] # tgt[p] => p \in Destinations]_vars

\* a run is done that copied a file while the target holds another file
\* that is no destination of the plan
C37_Witness ==
    /\ pc = "done"
    /\ \E i \in DOMAIN log : log[i].ev = "copy"
    /\ \E p \in Paths :
          /\ p \notin Destinations
          /\ tgt[p] # Absent

\* d holds nothing when the pruning starts that the pruning cannot remove:
\* no file, and no directory that holds a file or whose rmdir raises
RECURSIVE Prunable(_, _, _, _)
Prunable(t, dirs, failing, d) ==
    /\ DirIsEmpty(t, d)
    /\ d \notin failing
    /\ \A c \in Children(dirs, d) : Prunable(t, dirs, failing, c)

\* C38: the pruning step of a run leaves every file and the root as they
\* are, makes no directory, keeps every directory that holds a file, and
\* ends the run without an error, whatever rmdir raises; it removes every
\* directory that holds no file and nothing but directories which are
\* removed, the ones inside it first, whether a step of the run touched it
\* or not, and keeps the empty ones whose rmdir raises with those around
\* them.
C38_PruneRemovesEmptyDirs ==
    [][pc = "prune" =>
          /\ tgt' = tgt /\ tgtRoot' = tgtRoot /\ src' = src
          /\ pc' = "done"
          /\ \A d \in tgtDirs : ~DirIsEmpty(tgt, d) => d \in tgtDirs'
          /\ \A d \in tgtDirs' : ParentDir(d) # None => ParentDir(d)[1] \in tgtDirs'
          /\ tgtDirs' = {d \in tgtDirs : ~Prunable(tgt, tgtDirs, tgtLocked, d)}]_vars

\* a run with an empty plan is done whose pruning found nothing in the
\* directory d but the empty directory d\e, which cannot be removed: both
\* are still there, and so is the file at the root
C38_Witness ==
    /\ pc = "done"
    /\ plan = EmptyPlan
    /\ tgt[PathA] # Absent /\ tgt[PathDA] = Absent
    /\ tgtDirs = {ParentDir(DirDE)[1], DirDE}
    /\ tgtLocked = {DirDE}
    /\ Persisted(disk, cache)

\* the run has called create_backup for a file other than p that has the
\* base name of p, and its backup is there
NamesakeBackedUp(p) ==
    /\ <<now, BaseName(p)>> \in DOMAIN backups
    /\ \E i \in DOMAIN log :
          /\ log[i].ev = "backup"
          /\ log[i].path # p
          /\ BaseName(log[i].path) = BaseName(p)

\* C39: in a run with a backup root, a step that writes over or deletes a
\* readable file p after the run backed up another file of the same base
\* name puts the backup of p at the path of that backup, <timestamp>/<name>,
\* in place of it: the backup root holds no other new file, and the content
\* backed up before is gone from that path.
C39_SameNameBackupReplaced ==
    [][(Running /\ run.backup_root) =>
          \A p \in Paths :
              ((Overwrites(p) \/ Deletes(p)) /\ tgt[p] # "u" /\ NamesakeBackedUp(p)) =>
                  /\ DOMAIN backups' = DOMAIN backups
                  /\ backups' = [backups EXCEPT ![<<now, BaseName(p)>>] = tgt[p]]]_vars

\* a run is done that backed up a and d\a, which held different contents when
\* the plan was built: the backup root holds the content of the one backed
\* up last, and nowhere that of the other
C39_Witness ==
    /\ pc = "done"
    /\ run.backup_root
    /\ built.edits = edits
    /\ \E i \in DOMAIN log, j \in DOMAIN log :
          /\ i < j
          /\ log[i].ev = "backup" /\ log[j].ev = "backup"
          /\ log[i].path # log[j].path
          /\ BaseName(log[i].path) = BaseName(log[j].path)
          /\ built.tgt[log[i].path] \notin {"u", built.tgt[log[j].path]}
          /\ backups[<<now, BaseName(log[j].path)>>] = built.tgt[log[j].path]
          /\ \A k \in DOMAIN backups : backups[k] # built.tgt[log[i].path]

\* the window shows a plan that is not empty and whose snapshot payload is an
\* empty mapping, the Sync button is enabled and the user can press it
SyncOfEmptyPayload ==
    /\ gui.current_plan # None
    /\ ~gui.current_plan[1].empty
    /\ ~gui.current_plan[1].payload
    /\ gui.sync_btn
    /\ gui.dialogs = <<>> /\ gui.queue = <<>>

\* C40: while the window shows such a plan, nothing the user does starts a
\* SyncWorker, and no message box opens but the question of the Exclude
\* button: pressing Sync opens neither the confirmation of the sync nor a
\* message, and leaves the plan and the button as they are.
C40_SyncDropped ==
    [][SyncOfEmptyPayload =>
          /\ ~StartsSync
          /\ \A i \in DOMAIN gui'.dialogs : gui'.dialogs[i].kind = "exclude"
          /\ gui'.current_plan = gui.current_plan
          /\ gui'.sync_btn \/ gui'.preview_worker = "running"]_vars

\* the window shows a plan with items and an empty payload, the Sync button
\* is enabled, and no SyncWorker has been started
C40_Witness ==
    /\ SyncOfEmptyPayload
    /\ gui.current_plan[1].listed
    /\ gui.current_plan[1].asks > 0
    /\ gui.preview_worker = "finished"
    /\ worker = NoWorker
====
